---- MODULE Spec2Model ----
(***************************************************************************)
(* Mock BOSH Director: the entity store (internal/mockbosh/state.go), the  *)
(* task lifecycle simulator (internal/mockbosh/tasks.go) and the handlers  *)
(* that accept operations (HandleDeleteDeployment, HandleDeploymentJobs,   *)
(* HandleDeploymentRecreate).                                              *)
(*                                                                         *)
(* Every State method runs under s.data.mu.  A method whose body is one    *)
(* read or one update is one step taken while the mutex is free.           *)
(* DeleteDeployment, the only method that updates several collections, is  *)
(* modelled statement by statement inside its critical section, so that    *)
(* the partially applied cascade is a state of the model.                  *)
(*                                                                         *)
(* Records keep the fields that some operation reads or writes, plus the   *)
(* identifying ones; Task.Timestamp (time.Now) and the static descriptive  *)
(* fields of VM/Instance (AgentID, AZ, IPs, ...) are left out.             *)
(***************************************************************************)
EXTENDS Integers, Sequences, FiniteSets, TLC

VARIABLES
    Deployments,  \* StateData.Deployments : name -> Deployment
    VMs,          \* StateData.VMs         : name -> sequence of VM
    Instances,    \* StateData.Instances   : name -> sequence of Instance
    Variables,    \* StateData.Variables   : name -> sequence of Variable
    Tasks,        \* StateData.Tasks       : id -> Task
    Stemcells,    \* StateData.Stemcells   : sequence of Stemcell
    Locks,        \* StateData.Locks       : sequence of Lock
    nextTaskID,   \* StateData.nextTaskID
    mu,           \* StateData.mu          : "free" or "writer"
    call,         \* the DeleteDeployment call inside its critical section
    sim,          \* the simulator's goroutines : task id -> frame
    http,         \* the handler invocations    : request number -> frame
    returned,     \* history: ids returned by CreateTask, in order
    deleted,      \* history: names for which DeleteDeployment returned nil
    calls,        \* number of direct calls of State methods made so far
    threads,      \* concurrent callers of the store : caller -> frame
    held          \* the last direct call of a client and the value it got back

store == <<Deployments, VMs, Instances, Variables, Tasks, Stemcells, Locks, nextTaskID>>
vars == <<Deployments, VMs, Instances, Variables, Tasks, Stemcells, Locks, nextTaskID,
          mu, call, sim, http, returned, deleted, calls, threads, held>>
\* What belongs to the direct callers.
client == <<threads, held>>

\* ------------------------------------------------------------------ bounds
\* Operations accepted over HTTP (handler invocations).
MaxOps == 2
\* Direct calls of State's exported mutators (the way the store's tests drive it).
MaxCalls == 3
\* Direct calls made while the server is running (SpecAll).
MaxMixed == 1
\* Goroutines calling the store concurrently (SpecConc).
MaxThreads == 2

\* ------------------------------------------------------------ text helpers
Digit(d) == CASE d = 0 -> "0" [] d = 1 -> "1" [] d = 2 -> "2" [] d = 3 -> "3"
              [] d = 4 -> "4" [] d = 5 -> "5" [] d = 6 -> "6" [] d = 7 -> "7"
              [] d = 8 -> "8" [] OTHER -> "9"

RECURSIVE Itoa(_)
\* fmt.Sprintf("%d", n)
Itoa(n) == IF n < 0 THEN "-" \o Itoa(0 - n)
           ELSE IF n < 10 THEN Digit(n)
           ELSE Itoa(n \div 10) \o Digit(n % 10)

\* fmt.Errorf("deployment '%s' not found", name)
DeploymentNotFound(name) == "deployment '" \o name \o "' not found"

\* fmt.Errorf("task %d not found", id)
TaskNotFound(id) == "task " \o Itoa(id) \o " not found"

\* A nil error.
Nil == "<nil>"

\* ---------------------------------------------------------------- fixtures
NV(n, v) == [Name |-> n, Version |-> v]

defaultDeployments ==
    [n \in {"cf", "redis", "mysql"} |->
        [Name |-> n, CloudConfig |-> "latest",
         Releases |-> CASE n = "cf" -> <<NV("cf-deployment", "40.0.0"), NV("cflinuxfs4", "1.50.0"),
                                         NV("diego", "2.80.0"), NV("garden-runc", "1.28.0")>>
                        [] n = "redis" -> <<NV("redis", "16.0.0")>>
                        [] OTHER -> <<NV("pxc", "0.42.0")>>,
         Stemcells |-> <<NV("bosh-google-kvm-ubuntu-jammy-go_agent", "1.200")>>]]

vm(cid, dep, job, idx) ==
    [VMCID |-> cid, Deployment |-> dep, Job |-> job, Index |-> idx,
     ProcessState |-> "running", State |-> "started"]

defaultVMs ==
    [n \in {"cf", "redis", "mysql"} |->
        CASE n = "cf" -> <<vm("vm-cf-diego-cell-0", "cf", "diego_cell", 0),
                           vm("vm-cf-diego-cell-1", "cf", "diego_cell", 1),
                           vm("vm-cf-diego-cell-2", "cf", "diego_cell", 2),
                           vm("vm-cf-router-0", "cf", "router", 0),
                           vm("vm-cf-router-1", "cf", "router", 1),
                           vm("vm-cf-api-0", "cf", "api", 0),
                           vm("vm-cf-uaa-0", "cf", "uaa", 0),
                           vm("vm-cf-doppler-0", "cf", "doppler", 0)>>
          [] n = "redis" -> <<vm("vm-redis-0", "redis", "redis", 0),
                              vm("vm-redis-1", "redis", "redis", 1)>>
          [] OTHER -> <<vm("vm-mysql-0", "mysql", "mysql", 0),
                        vm("vm-mysql-1", "mysql", "mysql", 1),
                        vm("vm-mysql-2", "mysql", "mysql", 2)>>]

proc(name) == [Name |-> name, State |-> "running"]

inst(cid, dep, job, idx, procs) ==
    [VMCID |-> cid, Deployment |-> dep, Job |-> job, Index |-> idx,
     State |-> "running", Processes |-> procs]

defaultInstances ==
    [n \in {"cf", "redis", "mysql"} |->
        CASE n = "cf" ->
               <<inst("vm-cf-diego-cell-0", "cf", "diego_cell", 0,
                      <<proc("rep"), proc("garden"), proc("route_emitter")>>),
                 inst("vm-cf-diego-cell-1", "cf", "diego_cell", 1,
                      <<proc("rep"), proc("garden"), proc("route_emitter")>>),
                 inst("vm-cf-router-0", "cf", "router", 0,
                      <<proc("gorouter"), proc("route_registrar")>>),
                 inst("vm-cf-api-0", "cf", "api", 0,
                      <<proc("cloud_controller_ng"), proc("nginx")>>)>>
          [] n = "redis" ->
               <<inst("vm-redis-0", "redis", "redis", 0,
                      <<proc("redis-server"), proc("redis-sentinel")>>),
                 inst("vm-redis-1", "redis", "redis", 1,
                      <<proc("redis-server"), proc("redis-sentinel")>>)>>
          [] OTHER ->
               <<inst("vm-mysql-0", "mysql", "mysql", 0,
                      <<proc("pxc-mysql"), proc("galera-agent")>>)>>]

var(id, name) == [ID |-> id, Name |-> name]

defaultVariables ==
    [n \in {"cf", "redis", "mysql"} |->
        CASE n = "cf" -> <<var("var-1", "cf_admin_password"), var("var-2", "uaa_admin_client_secret"),
                           var("var-3", "router_ca"), var("var-4", "router_ssl"),
                           var("var-5", "diego_instance_identity_ca"),
                           var("var-6", "cc_db_encryption_key")>>
          [] n = "redis" -> <<var("var-10", "redis_password"), var("var-11", "redis_tls_ca")>>
          [] OTHER -> <<var("var-20", "mysql_admin_password"), var("var-21", "pxc_galera_ca"),
                        var("var-22", "mysql_server_certificate")>>]

task(id, state, desc, result, dep) ==
    [ID |-> id, State |-> state, Description |-> desc, Result |-> result,
     User |-> "admin", Deployment |-> dep]

defaultTasks ==
    [i \in 1..8 |->
        CASE i = 1 -> task(1, "done", "create deployment cf", "Created", "cf")
          [] i = 2 -> task(2, "done", "create deployment redis", "Created", "redis")
          [] i = 3 -> task(3, "done", "create deployment mysql", "Created", "mysql")
          [] i = 4 -> task(4, "done", "run errand smoke_tests", "Errand completed successfully", "cf")
          [] i = 5 -> task(5, "error", "run errand acceptance_tests",
                           "Error: Test failure in router tests", "cf")
          [] i = 6 -> task(6, "done", "update deployment cf", "Updated", "cf")
          [] i = 7 -> task(7, "done", "snapshot deployment mysql", "Snapshot created", "mysql")
          [] OTHER -> task(8, "done", "update cloud config", "Updated", "")]

defaultStemcells ==
    << [CID |-> "stemcell-uuid-1200", Deployments |-> <<"cf", "redis", "mysql">>],
       [CID |-> "stemcell-uuid-1199", Deployments |-> <<>>],
       [CID |-> "stemcell-uuid-bionic-1150", Deployments |-> <<>>] >>

\* DefaultFixtures: nextTaskID.
FirstTaskID == 100


\* The 30*time.Minute of the simulator's AddLock calls, as Duration.String() prints it.
LockTimeout == "30m0s"

\* ------------------------------------------------------------------ inputs
\* The goroutines that call the store concurrently (TestConcurrentAccess).
Callers == 1..MaxThreads

\* Deployment names that requests and direct calls name.
DeployArgs == {"redis", "nonexistent"}
\* Job names (the part of the job path before "/").
JobArgs == {"", "redis"}
\* Index strings (the part of the job path after "/").
IndexArgs == {"", "0"}
\* Deployment and job names handed to direct calls of the store.
ApiDeployArgs == {"cf", "redis", "nonexistent"}
ApiJobArgs == {"", "router"}
\* Task ids, states and result texts handed to a direct UpdateTaskState call.
TaskIDArgs == {5, FirstTaskID + 1, 99999}
StateArgs == {"processing", "done", "error"}
ResultArgs == {"", "forced"}
\* Every name that can key a collection.
Names == {"cf", "redis", "mysql"} \cup DeployArgs \cup ApiDeployArgs

Terminal == {"done", "error"}

\* ------------------------------------------------------------ map helpers
\* m[k] = v on a Go map.
MapPut(m, k, v) == [x \in DOMAIN m \cup {k} |-> IF x = k THEN v ELSE m[x]]
\* Faulty delete: the key stays.
MapDelete_Keep(m, k) == m
\* delete(m, k) on a Go map.
MapDelete(m, k) == [x \in DOMAIN m \ {k} |-> m[x]]
\* m[k] on a Go map of slices: the nil slice when the key is absent.
MapGet(m, k) == IF k \in DOMAIN m THEN m[k] ELSE <<>>

\* ------------------------------------------------------------------ mutex
\* Faulty writer: DeleteDeployment without s.data.mu.Lock().
Lock_NotTaken == "free"
\* s.data.mu.Lock(): the value the mutex takes while a writer is inside.
Lock == "writer"
\* Faulty writer: the deferred Unlock is missing.
Unlock_Forgotten == "writer"
\* s.data.mu.Unlock()
Unlock == "free"
\* Lock() and RLock() return only when no writer is inside.
MuFree == mu = "free"

\* The frame of a concurrent caller: the method it is in and how far it got.
Thread(op, pc) == [op |-> op, pc |-> pc]

\* A client that has made no call yet.
NoHeld == [op |-> "", args |-> <<>>, val |-> <<>>, err |-> Nil, at |-> 0, pre |-> <<>>]

\* ------------------------------------------------------------- store reads
\* State.HasDeployment
HasDeployment(name) == name \in DOMAIN Deployments

\* State.GetDeployment: the copy and the error.
GetDeployment(name) ==
    IF name \in DOMAIN Deployments
    THEN [val |-> <<Deployments[name]>>, err |-> Nil]
    ELSE [val |-> <<>>, err |-> DeploymentNotFound(name)]

\* Faulty read: the VM map is consulted instead of the deployment map.
GetVMs_ByEntries(deployment) ==
    IF deployment \in DOMAIN VMs
    THEN [val |-> VMs[deployment], err |-> Nil]
    ELSE [val |-> <<>>, err |-> DeploymentNotFound(deployment)]

\* State.GetVMs
GetVMs(deployment) ==
    IF deployment \in DOMAIN Deployments
    THEN [val |-> MapGet(VMs, deployment), err |-> Nil]
    ELSE [val |-> <<>>, err |-> DeploymentNotFound(deployment)]

\* State.GetInstances
GetInstances(deployment) ==
    IF deployment \in DOMAIN Deployments
    THEN [val |-> MapGet(Instances, deployment), err |-> Nil]
    ELSE [val |-> <<>>, err |-> DeploymentNotFound(deployment)]

\* State.GetVariables
GetVariables(deployment) ==
    IF deployment \in DOMAIN Deployments
    THEN [val |-> MapGet(Variables, deployment), err |-> Nil]
    ELSE [val |-> <<>>, err |-> DeploymentNotFound(deployment)]

\* State.GetTask
GetTask(id) ==
    IF id \in DOMAIN Tasks
    THEN [val |-> <<Tasks[id]>>, err |-> Nil]
    ELSE [val |-> <<>>, err |-> TaskNotFound(id)]

\* Faulty filter: one satisfied filter is enough.
TaskMatches_Either(t, state, deployment) ==
    \/ (state # "" /\ t.State = state)
    \/ (deployment # "" /\ t.Deployment = deployment)
    \/ (state = "" /\ deployment = "")

\* State.GetTasks, the two filters of the loop body.
TaskMatches(t, state, deployment) ==
    /\ ~(state # "" /\ t.State # state)
    /\ ~(deployment # "" /\ t.Deployment # deployment)

RECURSIVE Collect(_, _, _)
\* State.GetTasks, the loop: for _, t := range s.data.Tasks { ... append }.  Go
\* iterates a map in no particular order; ids is what is still to be visited.
Collect(ids, state, deployment) ==
    IF ids = {} THEN <<>>
    ELSE LET id == CHOOSE x \in ids : TRUE
         IN  (IF TaskMatches(Tasks[id], state, deployment) THEN <<Tasks[id]>> ELSE <<>>)
                \o Collect(ids \ {id}, state, deployment)

RECURSIVE InsertByID(_, _)
\* t put into a sequence ordered by: result[i].ID > result[j].ID
InsertByID(t, sorted) ==
    IF sorted = <<>> THEN <<t>>
    ELSE IF t.ID > Head(sorted).ID THEN <<t>> \o sorted
    ELSE <<Head(sorted)>> \o InsertByID(t, Tail(sorted))

RECURSIVE SortByID(_)
\* sort.Slice(result, func(i, j int) bool { return result[i].ID > result[j].ID })
SortByID(result) ==
    IF result = <<>> THEN <<>> ELSE InsertByID(Head(result), SortByID(Tail(result)))

\* Faulty cut: the last limit elements are kept.
Truncate_Oldest(result, limit) ==
    IF limit > 0 /\ Len(result) > limit
    THEN SubSeq(result, Len(result) - limit + 1, Len(result)) ELSE result

\* if limit > 0 && len(result) > limit { result = result[:limit] }
Truncate(result, limit) ==
    IF limit > 0 /\ Len(result) > limit THEN SubSeq(result, 1, limit) ELSE result

\* State.GetTasks
GetTasks(state, deployment, limit) ==
    Truncate(SortByID(Collect(DOMAIN Tasks, state, deployment)), limit)

\* State.GetStemcells
GetStemcells == Stemcells

\* State.GetLocks
GetLocks == Locks


\* ------------------------------------------------------------ store writes
\* Each write below is the body of one State method: it gives the next value
\* of every collection of StateData and of the two history variables.

\* Faulty counter: the increment is missing.
NextID_Stuck(n) == n

\* s.data.nextTaskID++
NextID(n) == n + 1

\* Faulty literal: the user is left out.
NewTask_NoUser(id, description, deployment, user) ==
    [ID |-> id, State |-> "queued", Description |-> description, Result |-> "",
     User |-> "", Deployment |-> deployment]

\* The Task literal of State.CreateTask.
NewTask(id, description, deployment, user) ==
    [ID |-> id, State |-> "queued", Description |-> description, Result |-> "",
     User |-> user, Deployment |-> deployment]

\* State.CreateTask; the returned task's id is nextTaskID'.
CreateTask(description, deployment, user) ==
    /\ nextTaskID' = NextID(nextTaskID)
    /\ Tasks' = MapPut(Tasks, nextTaskID', NewTask(nextTaskID', description, deployment, user))
    /\ returned' = Append(returned, nextTaskID')
    /\ UNCHANGED <<Deployments, VMs, Instances, Variables, Stemcells, Locks, deleted>>

\* Faulty setter: an empty result text erases the stored one.
SetTaskState_Overwrite(t, state, result) == [t EXCEPT !.State = state, !.Result = result]

\* Faulty setter: the result text is never stored.
SetTaskState_DropResult(t, state, result) == [t EXCEPT !.State = state]

\* The task record after t.State = state; if result != "" { t.Result = result }.
SetTaskState(t, state, result) ==
    [t EXCEPT !.State = state, !.Result = IF result # "" THEN result ELSE @]

\* State.UpdateTaskState: its error.
UpdateTaskStateErr(id) == IF id \in DOMAIN Tasks THEN Nil ELSE TaskNotFound(id)

\* Faulty update: an unknown id gets a record.
UpdateTaskState_Upsert(id, state, result) ==
    /\ Tasks' = MapPut(Tasks, id,
                       SetTaskState(IF id \in DOMAIN Tasks THEN Tasks[id]
                                    ELSE NewTask(id, "", "", ""), state, result))
    /\ UNCHANGED <<Deployments, VMs, Instances, Variables, Stemcells, Locks, nextTaskID,
                   returned, deleted>>

\* State.UpdateTaskState
UpdateTaskState(id, state, result) ==
    /\ Tasks' = IF id \in DOMAIN Tasks
                THEN [Tasks EXCEPT ![id] = SetTaskState(@, state, result)]
                ELSE Tasks
    /\ UNCHANGED <<Deployments, VMs, Instances, Variables, Stemcells, Locks, nextTaskID,
                   returned, deleted>>

\* State.AddLock
AddLock(lockType, resource, taskID, timeout) ==
    /\ Locks' = Append(Locks, [Type |-> lockType, Resource |-> resource,
                               Timeout |-> timeout, TaskID |-> taskID])
    /\ UNCHANGED <<Deployments, VMs, Instances, Variables, Tasks, Stemcells, nextTaskID,
                   returned, deleted>>

\* Faulty loop: the comparison is inverted, the resource's locks are the ones kept.
LocksWithout_Inverted(locks, resource) ==
    SelectSeq(locks, LAMBDA l : l.Resource = resource)

RECURSIVE LocksWithout(_, _)
\* The loop of State.RemoveLock: the locks whose Resource differs, in order.
LocksWithout(locks, resource) ==
    IF locks = <<>> THEN <<>>
    ELSE IF Head(locks).Resource # resource
         THEN <<Head(locks)>> \o LocksWithout(Tail(locks), resource)
         ELSE LocksWithout(Tail(locks), resource)

\* State.RemoveLock
RemoveLock(resource) ==
    /\ Locks' = LocksWithout(Locks, resource)
    /\ UNCHANGED <<Deployments, VMs, Instances, Variables, Tasks, Stemcells, nextTaskID,
                   returned, deleted>>

\* The VM identifier RecreateVMs derives.
RecreatedCID(deployment, v) ==
    "vm-" \o deployment \o "-" \o v.Job \o "-" \o Itoa(v.Index) \o "-recreated"

\* Faulty filter: the index is not compared.
RecreateMatches_JobOnly(v, job, index) == ~(job # "" /\ v.Job # job)

\* The two filters of the loop of RecreateVMs.
RecreateMatches(v, job, index) ==
    /\ ~(job # "" /\ v.Job # job)
    /\ ~(index # "" /\ Itoa(v.Index) # index)

\* Faulty error: an absent deployment is not reported.
RecreateVMsErr_Never(deployment) == Nil

\* State.RecreateVMs: its error.
RecreateVMsErr(deployment) ==
    IF deployment \in DOMAIN Deployments THEN Nil ELSE DeploymentNotFound(deployment)

\* The loop of RecreateVMs over one deployment's VM list.
RecreateVMList(vms, deployment, job, index) ==
    [i \in 1..Len(vms) |->
        IF RecreateMatches(vms[i], job, index)
        THEN [vms[i] EXCEPT !.VMCID = RecreatedCID(deployment, vms[i])]
        ELSE vms[i]]

\* State.RecreateVMs
RecreateVMs(deployment, job, index) ==
    /\ VMs' = IF deployment \in DOMAIN Deployments /\ deployment \in DOMAIN VMs
              THEN [VMs EXCEPT ![deployment] = RecreateVMList(@, deployment, job, index)]
              ELSE VMs
    /\ UNCHANGED <<Deployments, Instances, Variables, Tasks, Stemcells, Locks, nextTaskID,
                   returned, deleted>>

\* processState / vmProcessState of ChangeJobState.
ProcessStateFor(newState) == IF newState = "stopped" THEN "stopped" ELSE "running"

\* Faulty lifecycle state: the process state is stored as the VM's state.
VMStateFor_ProcessState(newState) == ProcessStateFor(newState)

\* The VM lifecycle state ChangeJobState sets.
VMStateFor(newState) == IF newState = "stopped" THEN "stopped" ELSE "started"

\* The job filter of both loops of ChangeJobState.
JobMatches(x, job) == ~(job # "" /\ x.Job # job)

\* State.ChangeJobState: its error.
ChangeJobStateErr(deployment) ==
    IF deployment \in DOMAIN Deployments THEN Nil ELSE DeploymentNotFound(deployment)

\* Faulty loop: the job filter is left out.
ChangeVMList_AllJobs(vms, job, newState) ==
    [i \in 1..Len(vms) |->
        [vms[i] EXCEPT !.ProcessState = ProcessStateFor(newState),
                       !.State = VMStateFor(newState)]]

\* The first loop of ChangeJobState, over one deployment's VM list.
ChangeVMList(vms, job, newState) ==
    [i \in 1..Len(vms) |->
        IF JobMatches(vms[i], job)
        THEN [vms[i] EXCEPT !.ProcessState = ProcessStateFor(newState),
                            !.State = VMStateFor(newState)]
        ELSE vms[i]]

\* The inner loop of ChangeJobState, over one instance's processes.
ChangeProcessList(procs, newState) ==
    [j \in 1..Len(procs) |-> [procs[j] EXCEPT !.State = ProcessStateFor(newState)]]

\* Faulty loop: every Instance is changed, whatever its job.
ChangeInstanceList_AllJobs(instances, job, newState) ==
    [i \in 1..Len(instances) |->
        [instances[i] EXCEPT !.State = ProcessStateFor(newState),
                             !.Processes = ChangeProcessList(@, newState)]]

\* The second loop of ChangeJobState, over one deployment's Instance list.
ChangeInstanceList(instances, job, newState) ==
    [i \in 1..Len(instances) |->
        IF JobMatches(instances[i], job)
        THEN [instances[i] EXCEPT !.State = ProcessStateFor(newState),
                                  !.Processes = ChangeProcessList(@, newState)]
        ELSE instances[i]]

\* State.ChangeJobState
ChangeJobState(deployment, job, newState) ==
    /\ VMs' = IF deployment \in DOMAIN Deployments /\ deployment \in DOMAIN VMs
              THEN [VMs EXCEPT ![deployment] = ChangeVMList(@, job, newState)]
              ELSE VMs
    /\ Instances' = IF deployment \in DOMAIN Deployments /\ deployment \in DOMAIN Instances
                    THEN [Instances EXCEPT ![deployment] = ChangeInstanceList(@, job, newState)]
                    ELSE Instances
    /\ UNCHANGED <<Deployments, Variables, Tasks, Stemcells, Locks, nextTaskID,
                   returned, deleted>>


\* -------------------------------------------------------- DeleteDeployment
\* No DeleteDeployment call is inside its critical section.
NoCall == [caller |-> 0, name |-> "", pc |-> "none", i |-> 0, err |-> Nil, pre |-> <<>>]

\* Faulty loop: deps is rebuilt by prepending, so the order is reversed.
Without_Reversed(deps, name) ==
    LET kept == SelectSeq(deps, LAMBDA d : d # name)
    IN  [i \in 1..Len(kept) |-> kept[Len(kept) + 1 - i]]

RECURSIVE Without(_, _)
\* The inner loop of DeleteDeployment: deps = the names other than name, in order.
Without(deps, name) ==
    IF deps = <<>> THEN <<>>
    ELSE IF Head(deps) # name
         THEN <<Head(deps)>> \o Without(Tail(deps), name)
         ELSE Without(Tail(deps), name)

\* Faulty return: the caller takes the success path whatever was returned.
Resume_IgnoreErr(c, err) ==
    IF c \in DOMAIN sim
    THEN [sim EXCEPT ![c].pc = "unlock", ![c].err = err]
    ELSE sim

\* The caller's frame when DeleteDeployment returns err to it: the simulator's
\* goroutine c goes on with its success or its failure path; a direct caller
\* (c = 0) keeps no frame.
Resume(c, err) ==
    IF c \in DOMAIN sim
    THEN [sim EXCEPT ![c].pc = IF err = Nil THEN "unlock" ELSE "failed", ![c].err = err]
    ELSE sim

\* A concurrent caller whose DeleteDeployment call returns is outside again.
ResumeThread(c) ==
    IF c \in DOMAIN threads THEN [threads EXCEPT ![c].pc = "idle"] ELSE threads

\* State.DeleteDeployment, entry: s.data.mu.Lock() by caller c.  The frame's
\* pre field is history: the store as the call found it.
DeleteDeploymentEnter(c, name) ==
    /\ MuFree
    /\ call.pc = "none"
    /\ mu' = Lock
    /\ call' = [caller |-> c, name |-> name, pc |-> "check", i |-> 1, err |-> Nil,
                pre |-> store]
    /\ UNCHANGED <<store, returned, deleted>>

\* Faulty check: deleting an absent deployment succeeds.
DeleteCheck_Idempotent ==
    /\ call.pc = "check"
    /\ call' = IF call.name \in DOMAIN Deployments
               THEN [call EXCEPT !.pc = "delDeployments"]
               ELSE [call EXCEPT !.pc = "return"]
    /\ UNCHANGED <<store, returned, deleted, mu, sim, threads>>

\* if _, ok := s.data.Deployments[name]; !ok { return error }
DeleteCheck ==
    /\ call.pc = "check"
    /\ call' = IF call.name \in DOMAIN Deployments
               THEN [call EXCEPT !.pc = "delDeployments"]
               ELSE [call EXCEPT !.pc = "return", !.err = DeploymentNotFound(call.name)]
    /\ UNCHANGED <<store, returned, deleted, mu, sim, threads>>

\* delete(s.data.Deployments, name)
DeleteFromDeployments ==
    /\ call.pc = "delDeployments"
    /\ Deployments' = MapDelete(Deployments, call.name)
    /\ call' = [call EXCEPT !.pc = "delVMs"]
    /\ UNCHANGED <<VMs, Instances, Variables, Tasks, Stemcells, Locks, nextTaskID,
                   returned, deleted, mu, sim, threads>>

\* delete(s.data.VMs, name)
DeleteFromVMs ==
    /\ call.pc = "delVMs"
    /\ VMs' = MapDelete(VMs, call.name)
    /\ call' = [call EXCEPT !.pc = "delInstances"]
    /\ UNCHANGED <<Deployments, Instances, Variables, Tasks, Stemcells, Locks, nextTaskID,
                   returned, deleted, mu, sim, threads>>

\* delete(s.data.Instances, name)
DeleteFromInstances ==
    /\ call.pc = "delInstances"
    /\ Instances' = MapDelete(Instances, call.name)
    /\ call' = [call EXCEPT !.pc = "delVariables"]
    /\ UNCHANGED <<Deployments, VMs, Variables, Tasks, Stemcells, Locks, nextTaskID,
                   returned, deleted, mu, sim, threads>>

\* Faulty step: the tasks of the deployment are deleted with its variables.
DeleteFromVariables_AndTasks ==
    /\ call.pc = "delVariables"
    /\ Variables' = MapDelete(Variables, call.name)
    /\ Tasks' = [t \in {k \in DOMAIN Tasks : Tasks[k].Deployment # call.name} |-> Tasks[t]]
    /\ call' = [call EXCEPT !.pc = IF Len(Stemcells) = 0 THEN "return" ELSE "stemcells"]
    /\ UNCHANGED <<Deployments, VMs, Instances, Stemcells, Locks, nextTaskID,
                   returned, deleted, mu, sim, threads>>

\* delete(s.data.Variables, name)
DeleteFromVariables ==
    /\ call.pc = "delVariables"
    /\ Variables' = MapDelete(Variables, call.name)
    /\ call' = [call EXCEPT !.pc = IF Len(Stemcells) = 0 THEN "return" ELSE "stemcells"]
    /\ UNCHANGED <<Deployments, VMs, Instances, Tasks, Stemcells, Locks, nextTaskID,
                   returned, deleted, mu, sim, threads>>

\* One iteration of: for i := range s.data.Stemcells { ... Deployments = deps }
DeleteFromStemcell ==
    /\ call.pc = "stemcells"
    /\ Stemcells' = [Stemcells EXCEPT ![call.i].Deployments = Without(@, call.name)]
    /\ call' = IF call.i < Len(Stemcells)
               THEN [call EXCEPT !.i = @ + 1]
               ELSE [call EXCEPT !.pc = "return"]
    /\ UNCHANGED <<Deployments, VMs, Instances, Variables, Tasks, Locks, nextTaskID,
                   returned, deleted, mu, sim, threads>>

\* return: the deferred s.data.mu.Unlock(), and the caller goes on.
DeleteReturn ==
    /\ call.pc = "return"
    /\ mu' = Unlock
    /\ deleted' = IF call.err = Nil THEN deleted \cup {call.name} ELSE deleted
    /\ sim' = Resume(call.caller, call.err)
    /\ threads' = ResumeThread(call.caller)
    /\ call' = NoCall
    /\ UNCHANGED <<store, returned>>

\* State.DeleteDeployment: the statements inside the critical section.
DeleteDeployment ==
    /\ \/ DeleteCheck
       \/ DeleteFromDeployments
       \/ DeleteFromVMs
       \/ DeleteFromInstances
       \/ DeleteFromVariables
       \/ DeleteFromStemcell
       \/ DeleteReturn
    /\ UNCHANGED <<http, calls, held>>


\* ---------------------------------------------------------------- simulator
\* A goroutine of the simulator is a frame [kind, deployment, job, index, pc, err];
\* pc names the store call it makes next:
\*   "queued"        UpdateTaskState(taskID, "processing", "")
\*   "processing"    AddLock
\*   "working"       the mutation (for restart: ChangeJobState stopped)
\*   "deleting"      inside DeleteDeployment
\*   "starting"      restart only: ChangeJobState started
\*   "failed"        UpdateTaskState(taskID, "error", err.Error())
\*   "failed_unlock" RemoveLock, then return
\*   "unlock"        RemoveLock
\*   "complete"      UpdateTaskState(taskID, "done", result)
\*   "exit"          the goroutine has returned
Frame(kind, deployment, job, index) ==
    [kind |-> kind, deployment |-> deployment, job |-> job, index |-> index,
     pc |-> "queued", err |-> Nil]

At(t, kind, pc) == t \in DOMAIN sim /\ sim[t].kind = kind /\ sim[t].pc = pc

Goto(t, pc) == sim' = [sim EXCEPT ![t].pc = pc]

\* Faulty branch: the error is recorded but the success path is taken.
AfterMutation_GoOn(t, err, ok) ==
    sim' = [sim EXCEPT ![t].pc = ok, ![t].err = err]

\* After a mutation returned err: if err != nil { ... } else { ... }
AfterMutation(t, err, ok) ==
    sim' = [sim EXCEPT ![t].pc = IF err = Nil THEN ok ELSE "failed", ![t].err = err]

\* Faulty first step: the task is never marked processing.
ToProcessing_Skip(t, kind) ==
    /\ At(t, kind, "queued")
    /\ MuFree
    /\ Goto(t, "processing")
    /\ UNCHANGED <<store, returned, deleted, mu, call>>

\* Queue -> Processing: ts.state.UpdateTaskState(taskID, "processing", "")
ToProcessing(t, kind) ==
    /\ At(t, kind, "queued")
    /\ MuFree
    /\ UpdateTaskState(t, "processing", "")
    /\ Goto(t, "processing")
    /\ UNCHANGED <<mu, call>>

\* Faulty acquisition: the goroutine waits until the deployment has no lock.
TakeLock_Exclusive(t, kind) ==
    /\ At(t, kind, "processing")
    /\ MuFree
    /\ \A i \in DOMAIN Locks : Locks[i].Resource # sim[t].deployment
    /\ AddLock("deployment", sim[t].deployment, Itoa(t), LockTimeout)
    /\ Goto(t, "working")
    /\ UNCHANGED <<mu, call>>

\* Faulty acquisition: the lock is added while the task is still queued.
TakeLock_Early(t, kind) ==
    /\ At(t, kind, "queued")
    /\ MuFree
    /\ AddLock("deployment", sim[t].deployment, Itoa(t), LockTimeout)
    /\ UNCHANGED <<mu, call, sim>>

\* ts.state.AddLock("deployment", deployment, fmt.Sprintf("%d", taskID), 30*time.Minute)
TakeLock(t, kind) ==
    /\ At(t, kind, "processing")
    /\ MuFree
    /\ AddLock("deployment", sim[t].deployment, Itoa(t), LockTimeout)
    /\ Goto(t, "working")
    /\ UNCHANGED <<mu, call>>

\* The failure path, first call: ts.state.UpdateTaskState(taskID, "error", err.Error())
FailTask(t, kind) ==
    /\ At(t, kind, "failed")
    /\ MuFree
    /\ UpdateTaskState(t, "error", sim[t].err)
    /\ Goto(t, "failed_unlock")
    /\ UNCHANGED <<mu, call>>

\* Faulty failure path: the return is missing, the success path follows.
FailUnlock_NoReturn(t, kind) ==
    /\ At(t, kind, "failed_unlock")
    /\ MuFree
    /\ RemoveLock(sim[t].deployment)
    /\ Goto(t, "unlock")
    /\ UNCHANGED <<mu, call>>

\* The failure path, second call: ts.state.RemoveLock(deployment); return
FailUnlock(t, kind) ==
    /\ At(t, kind, "failed_unlock")
    /\ MuFree
    /\ RemoveLock(sim[t].deployment)
    /\ Goto(t, "exit")
    /\ UNCHANGED <<mu, call>>

\* Faulty success path: the RemoveLock call is left out.
ReleaseLock_Skipped(t, kind) ==
    /\ At(t, kind, "unlock")
    /\ MuFree
    /\ Goto(t, "complete")
    /\ UNCHANGED <<store, returned, deleted, mu, call>>

\* The success path, first call: ts.state.RemoveLock(deployment)
ReleaseLock(t, kind) ==
    /\ At(t, kind, "unlock")
    /\ MuFree
    /\ RemoveLock(sim[t].deployment)
    /\ Goto(t, "complete")
    /\ UNCHANGED <<mu, call>>

\* The success path, second call: ts.state.UpdateTaskState(taskID, "done", result)
CompleteTask(t, kind, result) ==
    /\ At(t, kind, "complete")
    /\ MuFree
    /\ UpdateTaskState(t, "done", result)
    /\ Goto(t, "exit")
    /\ UNCHANGED <<mu, call>>

\* Result texts of the five operations.
DeleteResult(d) == "Deleted deployment " \o d

RecreateResult(d, job, index) ==
    IF job = "" THEN "Recreated VMs for deployment " \o d
    ELSE IF index = "" THEN "Recreated VMs for " \o d \o "/" \o job
    ELSE "Recreated VM " \o d \o "/" \o job \o "/" \o index

StartResult(d, job) ==
    IF job = "" THEN "Started jobs in deployment " \o d
    ELSE "Started job " \o job \o " in deployment " \o d

StopResult(d, job) ==
    IF job = "" THEN "Stopped jobs in deployment " \o d
    ELSE "Stopped job " \o job \o " in deployment " \o d

RestartResult(d, job) ==
    IF job = "" THEN "Restarted jobs in deployment " \o d
    ELSE "Restarted job " \o job \o " in deployment " \o d

\* TaskSimulator.ExecuteDelete: one step of the goroutine of task t.
ExecuteDelete(t) ==
    /\ \/ ToProcessing(t, "delete")
       \/ TakeLock(t, "delete")
       \/ /\ At(t, "delete", "working")
          /\ DeleteDeploymentEnter(t, sim[t].deployment)
          /\ Goto(t, "deleting")
       \/ FailTask(t, "delete")
       \/ FailUnlock(t, "delete")
       \/ ReleaseLock(t, "delete")
       \/ CompleteTask(t, "delete", DeleteResult(sim[t].deployment))
    /\ UNCHANGED <<http, calls, client>>

\* TaskSimulator.ExecuteRecreate: one step of the goroutine of task t.
ExecuteRecreate(t) ==
    /\ \/ ToProcessing(t, "recreate")
       \/ TakeLock(t, "recreate")
       \/ /\ At(t, "recreate", "working")
          /\ MuFree
          /\ UNCHANGED <<mu, call>>
          /\ RecreateVMs(sim[t].deployment, sim[t].job, sim[t].index)
          /\ AfterMutation(t, RecreateVMsErr(sim[t].deployment), "unlock")
       \/ FailTask(t, "recreate")
       \/ FailUnlock(t, "recreate")
       \/ ReleaseLock(t, "recreate")
       \/ CompleteTask(t, "recreate",
                       RecreateResult(sim[t].deployment, sim[t].job, sim[t].index))
    /\ UNCHANGED <<http, calls, client>>

\* TaskSimulator.ExecuteStart: one step of the goroutine of task t.
ExecuteStart(t) ==
    /\ \/ ToProcessing(t, "start")
       \/ TakeLock(t, "start")
       \/ /\ At(t, "start", "working")
          /\ MuFree
          /\ UNCHANGED <<mu, call>>
          /\ ChangeJobState(sim[t].deployment, sim[t].job, "started")
          /\ AfterMutation(t, ChangeJobStateErr(sim[t].deployment), "unlock")
       \/ FailTask(t, "start")
       \/ FailUnlock(t, "start")
       \/ ReleaseLock(t, "start")
       \/ CompleteTask(t, "start", StartResult(sim[t].deployment, sim[t].job))
    /\ UNCHANGED <<http, calls, client>>

\* TaskSimulator.ExecuteStop: one step of the goroutine of task t.
ExecuteStop(t) ==
    /\ \/ ToProcessing(t, "stop")
       \/ TakeLock(t, "stop")
       \/ /\ At(t, "stop", "working")
          /\ MuFree
          /\ UNCHANGED <<mu, call>>
          /\ ChangeJobState(sim[t].deployment, sim[t].job, "stopped")
          /\ AfterMutation(t, ChangeJobStateErr(sim[t].deployment), "unlock")
       \/ FailTask(t, "stop")
       \/ FailUnlock(t, "stop")
       \/ ReleaseLock(t, "stop")
       \/ CompleteTask(t, "stop", StopResult(sim[t].deployment, sim[t].job))
    /\ UNCHANGED <<http, calls, client>>

\* TaskSimulator.ExecuteRestart: one step of the goroutine of task t.
ExecuteRestart(t) ==
    /\ \/ ToProcessing(t, "restart")
       \/ TakeLock(t, "restart")
       \/ /\ At(t, "restart", "working")
          /\ MuFree
          /\ UNCHANGED <<mu, call>>
          /\ ChangeJobState(sim[t].deployment, sim[t].job, "stopped")
          /\ AfterMutation(t, ChangeJobStateErr(sim[t].deployment), "starting")
       \/ /\ At(t, "restart", "starting")
          /\ MuFree
          /\ UNCHANGED <<mu, call>>
          /\ ChangeJobState(sim[t].deployment, sim[t].job, "started")
          /\ AfterMutation(t, ChangeJobStateErr(sim[t].deployment), "unlock")
       \/ FailTask(t, "restart")
       \/ FailUnlock(t, "restart")
       \/ ReleaseLock(t, "restart")
       \/ CompleteTask(t, "restart", RestartResult(sim[t].deployment, sim[t].job))
    /\ UNCHANGED <<http, calls, client>>


\* ----------------------------------------------------------------- handlers
\* A handler invocation is a frame; pc is "checked" between its HasDeployment
\* call and its CreateTask call, and "responded" once it has written its response.
\* A handler that has returned keeps no locals: its frame is the response alone
\* (the status code and the task id of the Location header).
\* h.username, from DefaultServerConfig.
Username == "admin"

Request(handler, deployment, state, job, index) ==
    [handler |-> handler, deployment |-> deployment, state |-> state, job |-> job,
     index |-> index, pc |-> "checked", code |-> 0, task |-> 0]

\* http.StatusNotFound, http.StatusFound
StatusNotFound == 404
StatusFound == 302

\* What the client got: the status code and, for 302, the task of the Location header.
Response(code, taskID) ==
    [handler |-> "", deployment |-> "", state |-> "", job |-> "", index |-> "",
     pc |-> "responded", code |-> code, task |-> taskID]

\* The values of the state query parameter of PUT /deployments/:name/jobs/:job.
JobStates == {"started", "stopped", "restart", "recreate"}

\* Faulty start of a handler: the existence check is left out.
CheckDeployment_Lenient(req) ==
    /\ Len(http) < MaxOps
    /\ MuFree
    /\ http' = Append(http, req)
    /\ UNCHANGED <<store, returned, deleted, mu, call, sim, calls, client>>

\* The start of a handler: if !h.state.HasDeployment(deployment) { writeError(404) }.
CheckDeployment(req) ==
    /\ Len(http) < MaxOps
    /\ MuFree
    /\ http' = Append(http, IF HasDeployment(req.deployment)
                            THEN req
                            ELSE Response(StatusNotFound, 0))
    /\ UNCHANGED <<store, returned, deleted, mu, call, sim, calls, client>>

\* The end of a handler: CreateTask, Execute<kind>(task.ID, ...), 302 with the
\* task's location.  The go statement touches no shared state.
Accept(r, description, kind) ==
    /\ MuFree
    /\ CreateTask(description, http[r].deployment, Username)
    /\ sim' = MapPut(sim, nextTaskID',
                     Frame(kind, http[r].deployment, http[r].job, http[r].index))
    /\ http' = [http EXCEPT ![r] = Response(StatusFound, nextTaskID')]
    /\ UNCHANGED <<mu, call, calls, client>>

Pending(r, handler) ==
    r \in DOMAIN http /\ http[r].handler = handler /\ http[r].pc = "checked"

\* Handlers.HandleDeleteDeployment
HandleDeleteDeployment ==
    \/ \E d \in DeployArgs : CheckDeployment(Request("delete", d, "", "", ""))
    \/ \E r \in 1..MaxOps :
          /\ Pending(r, "delete")
          /\ Accept(r, "delete deployment " \o http[r].deployment, "delete")

\* The task descriptions of HandleDeploymentJobs.
JobDescription(state, d, job, index) ==
    CASE state = "started" ->
           IF job # "" THEN "start job " \o job \o " in deployment " \o d
           ELSE "start jobs in deployment " \o d
      [] state = "stopped" ->
           IF job # "" THEN "stop job " \o job \o " in deployment " \o d
           ELSE "stop jobs in deployment " \o d
      [] state = "restart" ->
           IF job # "" THEN "restart job " \o job \o " in deployment " \o d
           ELSE "restart jobs in deployment " \o d
      [] OTHER ->
           IF job = "" THEN "recreate VMs for deployment " \o d
           ELSE IF index = "" THEN "recreate VMs for " \o d \o "/" \o job
           ELSE "recreate VM " \o d \o "/" \o job \o "/" \o index

\* The simulation HandleDeploymentJobs starts for each state.
KindOf(state) ==
    CASE state = "started" -> "start"
      [] state = "stopped" -> "stop"
      [] state = "restart" -> "restart"
      [] OTHER -> "recreate"

\* Handlers.HandleDeploymentJobs; job and index are the two parts of the job path.
\* Only recreate passes the index on.
HandleDeploymentJobs ==
    \/ \E d \in DeployArgs, st \in JobStates, job \in JobArgs, index \in IndexArgs :
          /\ st # "recreate" => index = ""
          /\ CheckDeployment(Request("jobs", d, st, job, index))
    \/ \E r \in 1..MaxOps :
          /\ Pending(r, "jobs")
          /\ Accept(r, JobDescription(http[r].state, http[r].deployment,
                                      http[r].job, http[r].index),
                    KindOf(http[r].state))

\* Handlers.HandleDeploymentRecreate
HandleDeploymentRecreate ==
    \/ \E d \in DeployArgs : CheckDeployment(Request("recreate", d, "recreate", "", ""))
    \/ \E r \in 1..MaxOps :
          /\ Pending(r, "recreate")
          /\ Accept(r, "recreate VMs for deployment " \o http[r].deployment, "recreate")

\* --------------------------------------------------------------- task output
\* The decimal text of task.Timestamp.  The model's Task has no Timestamp
\* (it is time.Now() at creation), so its text is left open.
TimestampText == "<unix time>"

\* TaskSimulator.GetTaskOutput
GetTaskOutput(t, outputType) ==
    LET kind == IF outputType = "" THEN "result" ELSE outputType
    IN  CASE kind = "result" ->
               IF t.Result # "" THEN t.Result
               ELSE "Task " \o Itoa(t.ID) \o ": " \o t.Description
          [] kind = "debug" ->
               "DEBUG: Task " \o Itoa(t.ID) \o " started at " \o TimestampText
                  \o "\nDEBUG: State: " \o t.State \o "\nDEBUG: Deployment: " \o t.Deployment
          [] kind = "cpi" -> "CPI: No CPI operations for task " \o Itoa(t.ID)
          [] kind = "event" ->
               "EVENT: Task " \o Itoa(t.ID) \o " " \o t.State \o " at " \o TimestampText
          [] OTHER -> t.Result

\* ------------------------------------------------------------- direct calls
\* State's exported mutators called directly, as the tests of the store do.
ApiCreateTask ==
    /\ calls < MaxCalls
    /\ MuFree
    /\ CreateTask("test task", "cf", "admin")
    /\ calls' = calls + 1
    /\ UNCHANGED <<mu, call, sim, http, client>>

ApiUpdateTaskState ==
    \E id \in TaskIDArgs, st \in StateArgs, res \in ResultArgs :
        /\ calls < MaxCalls
        /\ MuFree
        /\ UpdateTaskState(id, st, res)
        /\ calls' = calls + 1
        /\ UNCHANGED <<mu, call, sim, http, client>>

ApiDeleteDeployment ==
    \E name \in ApiDeployArgs :
        /\ calls < MaxCalls
        /\ DeleteDeploymentEnter(0, name)
        /\ calls' = calls + 1
        /\ UNCHANGED <<sim, http, client>>

ApiChangeJobState ==
    \E d \in ApiDeployArgs, job \in ApiJobArgs, st \in {"stopped", "started", "restart"} :
        /\ calls < MaxCalls
        /\ MuFree
        /\ ChangeJobState(d, job, st)
        /\ calls' = calls + 1
        /\ UNCHANGED <<mu, call, sim, http, client>>

\* ------------------------------------------------------ concurrent callers
\* Goroutines that call State's methods at the same time (TestConcurrentAccess).
\* A method is entered by its first statement, s.data.mu.Lock() or
\* s.data.mu.RLock(), takes the steps of its body inside, and leaves by its
\* deferred Unlock() or RUnlock().

\* The methods the concurrent callers invoke.
ThreadOps ==
    {"DeleteDeployment", "CreateTask", "UpdateTaskState", "AddLock", "RemoveLock",
     "RecreateVMs", "ChangeJobState", "GetDeployments", "GetVMs", "GetTasks"}

\* Faulty methods: every method takes the read lock.
LockKind_Shared(op) == "RLock"

\* The first statement of each method.
LockKind(op) ==
    CASE op = "DeleteDeployment" -> "Lock"
      [] op = "CreateTask" -> "Lock"
      [] op = "UpdateTaskState" -> "Lock"
      [] op = "AddLock" -> "Lock"
      [] op = "RemoveLock" -> "Lock"
      [] op = "RecreateVMs" -> "Lock"
      [] op = "ChangeJobState" -> "Lock"
      [] OTHER -> "RLock"

\* The callers that hold the read lock.
Readers ==
    {c \in Callers : threads[c].pc # "idle" /\ LockKind(threads[c].op) = "RLock"}

\* Faulty mutex: Lock() returns at once.
CanLock_NoWait == TRUE

\* sync.RWMutex: Lock() returns only when no writer and no reader is inside.
CanLock == MuFree /\ Readers = {}

\* sync.RWMutex: RLock() returns only when no writer is inside.
CanRLock == MuFree

\* Caller c enters op.  DeleteDeployment continues with the statements of its
\* critical section (DeleteDeployment above) and leaves by DeleteReturn.
ThreadEnter(c, op) ==
    /\ threads[c].pc = "idle"
    /\ calls < MaxCalls
    /\ calls' = calls + 1
    /\ threads' = [threads EXCEPT ![c] = Thread(op, "in")]
    /\ IF op = "DeleteDeployment"
       THEN CanLock /\ DeleteDeploymentEnter(c, "redis")
       ELSE /\ IF LockKind(op) = "Lock" THEN CanLock /\ mu' = Lock
                                        ELSE CanRLock /\ mu' = mu
            /\ UNCHANGED <<store, returned, deleted, call>>
    /\ UNCHANGED <<sim, http, held>>

\* State.CreateTask, first statement of the body: s.data.nextTaskID++
CreateTaskIncrement ==
    /\ nextTaskID' = NextID(nextTaskID)
    /\ UNCHANGED <<Deployments, VMs, Instances, Variables, Tasks, Stemcells, Locks,
                   returned, deleted>>

\* State.CreateTask, the rest: task := &Task{ID: s.data.nextTaskID, ...};
\* s.data.Tasks[task.ID] = task; return task
CreateTaskStore(description, deployment, user) ==
    /\ Tasks' = MapPut(Tasks, nextTaskID,
                       NewTask(nextTaskID, description, deployment, user))
    /\ returned' = Append(returned, nextTaskID)
    /\ UNCHANGED <<Deployments, VMs, Instances, Variables, Stemcells, Locks, nextTaskID,
                   deleted>>

\* A thread moves on inside its method.
ThreadGoto(c, pc) == threads' = [threads EXCEPT ![c].pc = pc]

ThreadAt(c, op, pc) == threads[c].op = op /\ threads[c].pc = pc

\* One step of the body of the method caller c is in.
ThreadBody(c) ==
    /\ \/ ThreadAt(c, "CreateTask", "in") /\ CreateTaskIncrement
          /\ ThreadGoto(c, "incremented")
       \/ ThreadAt(c, "CreateTask", "incremented")
          /\ CreateTaskStore("concurrent test", "cf", "admin")
          /\ ThreadGoto(c, "out")
       \/ ThreadAt(c, "UpdateTaskState", "in") /\ UpdateTaskState(5, "processing", "")
          /\ ThreadGoto(c, "out")
       \/ ThreadAt(c, "AddLock", "in") /\ AddLock("deployment", "redis", "5", LockTimeout)
          /\ ThreadGoto(c, "out")
       \/ ThreadAt(c, "RemoveLock", "in") /\ RemoveLock("redis")
          /\ ThreadGoto(c, "out")
       \/ ThreadAt(c, "RecreateVMs", "in") /\ RecreateVMs("redis", "", "")
          /\ ThreadGoto(c, "out")
       \/ ThreadAt(c, "ChangeJobState", "in") /\ ChangeJobState("redis", "", "stopped")
          /\ ThreadGoto(c, "out")
       \/ /\ threads[c].op \in {"GetDeployments", "GetVMs", "GetTasks"}
          /\ threads[c].pc = "in"
          /\ ThreadGoto(c, "out")
          /\ UNCHANGED <<store, returned, deleted>>
    /\ UNCHANGED <<mu, call, sim, http, calls, held>>

\* The deferred s.data.mu.Unlock() or s.data.mu.RUnlock() of caller c's method.
ThreadExit(c) ==
    /\ threads[c].pc = "out"
    /\ mu' = IF LockKind(threads[c].op) = "Lock" THEN Unlock ELSE mu
    /\ ThreadGoto(c, "idle")
    /\ UNCHANGED <<store, returned, deleted, call, sim, http, calls, held>>

\* ------------------------------------------------------------------ clients
\* A client calls State's methods one at a time and keeps in held what the
\* last call returned: the method, its arguments, the value, the error and the
\* number of the call.  The store keeps slices and *Task pointers, so a value
\* is modelled with what it shares: a field that is a slice is copied as a
\* slice header onto the stored backing array, a *Task as the pointer.

\* A slice header or pointer onto the stored data at loc.
SliceAt(loc) == [ptr |-> loc]

\* copy := *d in State.GetDeployment: Name and CloudConfig are copied, Releases
\* and Stemcells are slice headers onto the stored arrays.
ReturnedDeployment(name) ==
    [Deployments[name] EXCEPT !.Releases = SliceAt(<<"Releases", name>>),
                              !.Stemcells = SliceAt(<<"Stemcells", name>>)]

\* copy(result, instances) in State.GetInstances: each Instance struct is
\* copied, its Processes field is a slice header onto the stored array.
ReturnedInstances(deployment) ==
    LET instances == MapGet(Instances, deployment)
    IN  [i \in 1..Len(instances) |->
            [instances[i] EXCEPT !.Processes = SliceAt(<<deployment, i>>)]]

\* What the client holds after a call; at is the number of that call and pre
\* (history) the store the call found.
Held(op, args, val, err) ==
    [op |-> op, args |-> args, val |-> val, err |-> err, at |-> calls + 1, pre |-> store]

\* One call by the client: it waits for the mutex and gets h back.
Call(h) ==
    /\ calls < MaxCalls
    /\ MuFree
    /\ calls' = calls + 1
    /\ held' = h
    /\ UNCHANGED <<mu, call, sim, http, threads>>

\* A call of a read method.
Read(h) == Call(h) /\ UNCHANGED <<store, returned, deleted>>

\* Filters and limits handed to GetTasks (GET /tasks?state=&deployment=&limit=).
StateFilters == {"", "done", "queued"}
DeploymentFilters == {"", "cf"}
Limits == {-1, 0, 2, 20}

ClientGetDeployment ==
    \E name \in ApiDeployArgs :
        Read(Held("GetDeployment", <<name>>,
                  IF HasDeployment(name) THEN <<ReturnedDeployment(name)>> ELSE <<>>,
                  GetDeployment(name).err))

ClientGetVMs ==
    \E d \in ApiDeployArgs :
        Read(Held("GetVMs", <<d>>, GetVMs(d).val, GetVMs(d).err))

ClientGetInstances ==
    \E d \in ApiDeployArgs :
        Read(Held("GetInstances", <<d>>,
                  IF HasDeployment(d) THEN ReturnedInstances(d) ELSE <<>>,
                  GetInstances(d).err))

ClientGetVariables ==
    \E d \in ApiDeployArgs :
        Read(Held("GetVariables", <<d>>, GetVariables(d).val, GetVariables(d).err))

ClientGetTask ==
    \E id \in TaskIDArgs :
        Read(Held("GetTask", <<id>>, GetTask(id).val, GetTask(id).err))

ClientGetTasks ==
    \E state \in StateFilters, d \in DeploymentFilters, limit \in Limits :
        Read(Held("GetTasks", <<state, d, limit>>, GetTasks(state, d, limit), Nil))

\* task := state.CreateTask(...): the client holds the *Task the store keeps.
ClientCreateTask ==
    \E d \in {"cf", ""} :
        /\ CreateTask("test task", d, "admin")
        /\ Call(Held("CreateTask", <<"test task", d, "admin">>, SliceAt(nextTaskID'), Nil))

ClientUpdateTaskState ==
    \E id \in TaskIDArgs, st \in StateArgs, res \in ResultArgs :
        /\ UpdateTaskState(id, st, res)
        /\ Call(Held("UpdateTaskState", <<id, st, res>>, <<>>, UpdateTaskStateErr(id)))

ClientChangeJobState ==
    \E d \in ApiDeployArgs, job \in ApiJobArgs, st \in {"stopped", "started", "restart"} :
        /\ ChangeJobState(d, job, st)
        /\ Call(Held("ChangeJobState", <<d, job, st>>, <<>>, ChangeJobStateErr(d)))

ClientRecreateVMs ==
    \E d \in ApiDeployArgs, job \in ApiJobArgs, index \in IndexArgs :
        /\ RecreateVMs(d, job, index)
        /\ Call(Held("RecreateVMs", <<d, job, index>>, <<>>, RecreateVMsErr(d)))

\* The values of the type query parameter of GET /tasks/:id/output.
OutputTypes == {"", "result", "debug", "cpi", "event", "bogus"}

\* Handlers.HandleTaskOutput: GetTask, then GetTaskOutput on the copy.
HandleTaskOutput ==
    \E id \in TaskIDArgs, outputType \in OutputTypes :
        Read(Held("GetTaskOutput", <<id, outputType>>,
                  IF GetTask(id).err = Nil
                  THEN <<GetTaskOutput(GetTask(id).val[1], outputType)>> ELSE <<>>,
                  GetTask(id).err))

\* The text a client writes into what it holds, and the positions of a list
\* it writes at.
Tampered == "tampered"
TamperAt == {1}

\* The client's own steps leave the mutex, the server and the call count alone.
ClientStep == UNCHANGED <<mu, call, sim, http, threads, calls, returned, deleted>>

\* The client assigns a field of a struct it holds: task.State = ...,
\* instances[i].State = ..., d.CloudConfig = ...
TamperField ==
    /\ held.err = Nil
    /\ \/ held.op \in {"GetTask", "GetDeployment"}
          /\ held' = [held EXCEPT !.val[1] =
                        IF held.op = "GetTask" THEN [@ EXCEPT !.State = Tampered]
                                               ELSE [@ EXCEPT !.CloudConfig = Tampered]]
       \/ held.op = "GetInstances"
          /\ \E i \in TamperAt \cap DOMAIN held.val : held' = [held EXCEPT !.val[i].State = Tampered]
    /\ UNCHANGED store
    /\ ClientStep

\* The client replaces a slice it holds: instances[i].Processes = nil, as
\* HandleDeploymentInstances does for the short format.
TamperSlice ==
    /\ held.err = Nil
    /\ held.op = "GetInstances"
    /\ \E i \in TamperAt \cap DOMAIN held.val : held' = [held EXCEPT !.val[i].Processes = <<>>]
    /\ UNCHANGED store
    /\ ClientStep

\* The client assigns an element reached through a slice header it holds:
\* instances[i].Processes[0].State = ..., d.Releases[0].Version = ...  The
\* write lands in the backing array the header points to, which is the stored
\* one as long as the store still has it.
TamperElement ==
    /\ held.err = Nil
    /\ \/ /\ held.op = "GetInstances"
          /\ \E i \in TamperAt \cap DOMAIN held.val :
                LET d == held.args[1] IN
                /\ held.val[i].Processes = SliceAt(<<d, i>>)
                /\ d \in DOMAIN Instances
                /\ Instances' = [Instances EXCEPT ![d][i].Processes[1].State = Tampered]
          /\ UNCHANGED <<Deployments, VMs, Variables, Tasks, Stemcells, Locks, nextTaskID>>
       \/ /\ held.op = "GetDeployment"
          /\ held.args[1] \in DOMAIN Deployments
          /\ Deployments' = [Deployments EXCEPT ![held.args[1]].Releases[1].Version = Tampered]
          /\ UNCHANGED <<VMs, Instances, Variables, Tasks, Stemcells, Locks, nextTaskID>>
    /\ UNCHANGED held
    /\ ClientStep

\* The client assigns a field through the *Task CreateTask returned:
\* task.Description = ...
TamperPointer ==
    /\ held.op = "CreateTask"
    /\ Tasks' = [Tasks EXCEPT ![held.val.ptr].Description = Tampered]
    /\ UNCHANGED <<Deployments, VMs, Instances, Variables, Stemcells, Locks, nextTaskID>>
    /\ UNCHANGED held
    /\ ClientStep

\* ------------------------------------------------------------ specification
\* NewServer: NewState() with DefaultFixtures(), no request in flight.
Init ==
    /\ Deployments = defaultDeployments
    /\ VMs = defaultVMs
    /\ Instances = defaultInstances
    /\ Variables = defaultVariables
    /\ Tasks = defaultTasks
    /\ Stemcells = defaultStemcells
    /\ Locks = <<>>
    /\ nextTaskID = FirstTaskID
    /\ mu = "free"
    /\ call = NoCall
    /\ sim = [t \in {} |-> Frame("", "", "", "")]
    /\ http = <<>>
    /\ returned = <<>>
    /\ deleted = {}
    /\ calls = 0
    /\ threads = [c \in Callers |-> Thread("", "idle")]
    /\ held = NoHeld

\* Ids of the tasks that can exist beyond the fixtures.
NewTaskIDs == (FirstTaskID + 1)..(FirstTaskID + MaxOps + MaxCalls)

\* The server: handlers and the simulator's goroutines.
ServerNext ==
    \/ HandleDeleteDeployment
    \/ HandleDeploymentJobs
    \/ HandleDeploymentRecreate
    \/ \E t \in NewTaskIDs : ExecuteDelete(t)
    \/ \E t \in NewTaskIDs : ExecuteRecreate(t)
    \/ \E t \in NewTaskIDs : ExecuteStart(t)
    \/ \E t \in NewTaskIDs : ExecuteStop(t)
    \/ \E t \in NewTaskIDs : ExecuteRestart(t)
    \/ DeleteDeployment

\* Direct callers of the store.
ApiNext ==
    \/ ApiCreateTask
    \/ ApiUpdateTaskState
    \/ ApiDeleteDeployment
    \/ ApiChangeJobState

\* The server as NewServer wires it: only the handlers and the simulator reach
\* the store.
Next == ServerNext

Spec == Init /\ [][Next]_vars

\* The store driven by direct calls alone.
StoreNext == ApiNext \/ DeleteDeployment

SpecStore == Init /\ [][StoreNext]_vars

\* The server together with direct callers of the store.
AllNext ==
    \/ ServerNext
    \/ (calls < MaxMixed /\ ApiNext)

SpecAll == Init /\ [][AllNext]_vars

\* The store under concurrent callers.
ConcNext ==
    \/ \E c \in Callers, op \in ThreadOps : ThreadEnter(c, op)
    \/ \E c \in Callers : ThreadBody(c)
    \/ \E c \in Callers : ThreadExit(c)
    \/ DeleteDeployment

SpecConc == Init /\ [][ConcNext]_vars

\* A client that reads, keeps and changes what it was handed, between writes.
CopyNext ==
    \/ ClientGetDeployment
    \/ ClientGetInstances
    \/ ClientGetTask
    \/ ClientCreateTask
    \/ ClientUpdateTaskState
    \/ TamperField
    \/ TamperSlice
    \/ TamperElement
    \/ TamperPointer

SpecCopy == Init /\ [][CopyNext]_vars

\* A client that calls the store's mutators.
CallsNext ==
    \/ ClientCreateTask
    \/ ClientUpdateTaskState
    \/ ClientChangeJobState
    \/ ClientRecreateVMs
    \/ ApiDeleteDeployment
    \/ DeleteDeployment

SpecCalls == Init /\ [][CallsNext]_vars

\* A client that creates and updates tasks and polls their output.
OutputNext ==
    \/ ClientCreateTask
    \/ ClientUpdateTaskState
    \/ HandleTaskOutput

SpecOutput == Init /\ [][OutputNext]_vars

\* A client that creates, updates and lists tasks.
TasksNext ==
    \/ ClientCreateTask
    \/ ClientUpdateTaskState
    \/ ClientGetTasks

SpecTasks == Init /\ [][TasksNext]_vars

\* m without its entries outside keys.
Restrict(m, keys) == [k \in DOMAIN m \cap keys |-> m[k]]

\* Per-deployment maps a caller of NewStateWithData can hand over: the
\* fixture's map, one without the redis and mysql keys, one whose redis entry
\* is an empty list, and an empty map.
DataMaps(default) ==
    {default, Restrict(default, {"cf"}), [default EXCEPT !["redis"] = <<>>],
     Restrict(default, {})}

\* Deployment maps handed over: the fixture's, and one without mysql.
DataDeployments == {defaultDeployments, Restrict(defaultDeployments, {"cf", "redis"})}

\* NewStateWithData(data): the store is whatever the caller built.
InitData ==
    /\ Deployments \in DataDeployments
    /\ VMs \in DataMaps(defaultVMs)
    /\ Instances \in DataMaps(defaultInstances)
    /\ Variables \in DataMaps(defaultVariables)
    /\ Tasks = defaultTasks
    /\ Stemcells = defaultStemcells
    /\ Locks = <<>>
    /\ nextTaskID = FirstTaskID
    /\ mu = "free"
    /\ call = NoCall
    /\ sim = [t \in {} |-> Frame("", "", "", "")]
    /\ http = <<>>
    /\ returned = <<>>
    /\ deleted = {}
    /\ calls = 0
    /\ threads = [c \in Callers |-> Thread("", "idle")]
    /\ held = NoHeld

\* A client that lists the VMs, instances and variables of a deployment.
DataNext ==
    \/ ClientGetVMs
    \/ ClientGetInstances
    \/ ClientGetVariables

SpecData == InitData /\ [][DataNext]_vars

\* One step of the goroutine of task t, whatever its kind.
Execute(t) ==
    \/ ExecuteDelete(t)
    \/ ExecuteRecreate(t)
    \/ ExecuteStart(t)
    \/ ExecuteStop(t)
    \/ ExecuteRestart(t)

\* Ids of the tasks the handlers can create.
SimIDs == (FirstTaskID + 1)..(FirstTaskID + MaxOps)

\* The server under the Go scheduler: a goroutine that can take its next step
\* eventually takes it (time.Sleep returns, and a writer waiting for the
\* RWMutex is not starved).
FairSpec ==
    /\ Spec
    /\ \A t \in SimIDs : WF_vars(Execute(t))
    /\ WF_vars(DeleteDeployment)


\* =================================================================== claims
\* The lock records that carry task t's id.
LocksOf(t) == {i \in 1..Len(Locks) : Locks[i].TaskID = Itoa(t)}

\* The lock records for one deployment.
LocksOn(d) == {i \in 1..Len(Locks) : Locks[i].Resource = d}

Range(f) == {f[x] : x \in DOMAIN f}

\* ----------------------------------------------------------------------- C1
\* C1: every id CreateTask returns is strictly greater than every id returned
\* earlier and than every id already stored; the call adds a record under that
\* id and overwrites no existing record.
C1_IdsStrictlyIncrease ==
    [][returned' # returned =>
         LET id == returned'[Len(returned')] IN
           /\ \A i \in 1..Len(returned) : returned[i] < id
           /\ \A k \in DOMAIN Tasks : k < id /\ Tasks'[k] = Tasks[k]
           /\ DOMAIN Tasks' = DOMAIN Tasks \cup {id}]_vars

\* Three CreateTask calls have returned.
C1_Witness == Len(returned) >= 3

\* ----------------------------------------------------------------------- C2
\* C2, as claimed: once a task's state is done or error, no step (of the
\* simulator or a direct UpdateTaskState call) changes that task's state.
C2_TerminalNeverLeft ==
    [][\A id \in DOMAIN Tasks :
          Tasks[id].State \in Terminal => Tasks'[id].State = Tasks[id].State]_vars

\* C2, amended: UpdateTaskState is unguarded, so a direct call can change a
\* terminal task's state; the simulator does not: no step other than a direct
\* call changes the state of a task whose goroutine has returned, and as long
\* as no direct call has been made no step changes a terminal task's state.
C2_SimulatorNeverLeavesTerminal ==
    [][calls' = calls =>
         /\ \A t \in DOMAIN sim :
               sim[t].pc = "exit" => Tasks'[t].State = Tasks[t].State
         /\ calls = 0 =>
               \A id \in DOMAIN Tasks :
                  Tasks[id].State \in Terminal => Tasks'[id].State = Tasks[id].State]_vars

\* A simulated task has ended in error, its goroutine has returned, and another
\* goroutine is still to take steps.
C2_Witness ==
    \E t, u \in DOMAIN sim :
        /\ sim[t].pc = "exit" /\ Tasks[t].State = "error"
        /\ sim[u].pc \notin {"exit"}

\* ----------------------------------------------------------------------- C3
\* C3: a simulated task is created queued, and its state only ever moves
\* queued -> processing, processing -> done or processing -> error.
C3_Lifecycle ==
    [][\A t \in DOMAIN sim' :
          /\ t \notin DOMAIN sim => Tasks'[t].State = "queued"
          /\ (t \in DOMAIN sim /\ Tasks'[t].State # Tasks[t].State) =>
                <<Tasks[t].State, Tasks'[t].State>> \in
                    {<<"queued", "processing">>, <<"processing", "done">>,
                     <<"processing", "error">>}]_vars

\* One simulated task has ended done and another has ended error.
C3_Witness ==
    \E t, u \in DOMAIN sim :
        /\ sim[t].pc = "exit" /\ Tasks[t].State = "done"
        /\ sim[u].pc = "exit" /\ Tasks[u].State = "error"

\* ----------------------------------------------------------------------- C4
\* C4: every task handed to the simulator eventually has its goroutine returned
\* with the task in done or error, whether or not its deployment still exists.
C4_EveryTaskTerminates ==
    \A t \in SimIDs :
        (t \in DOMAIN sim) ~>
            (t \in DOMAIN sim /\ sim[t].pc = "exit" /\ Tasks[t].State \in Terminal)

\* A task whose deployment was gone at its mutation has terminated.
C4_Witness ==
    \E t \in DOMAIN sim :
        /\ sim[t].pc = "exit" /\ Tasks[t].State \in Terminal
        /\ ~HasDeployment(sim[t].deployment)
        /\ sim[t].err # Nil

\* ----------------------------------------------------------------------- C5
\* C5, as claimed: in every reachable state a simulated task whose state is
\* done or error has no lock record carrying its task id.
C5_NoLockOnceTerminal ==
    \A t \in DOMAIN sim : Tasks[t].State \in Terminal => LocksOf(t) = {}

\* ----------------------------------------------------------------------- C6
\* What holds of task t once its mutation has returned an error.
C6_Failed(t) ==
    sim[t].err # Nil =>
        /\ ~HasDeployment(sim[t].deployment)
        /\ sim[t].err = GetDeployment(sim[t].deployment).err
        /\ sim[t].pc \in {"failed", "failed_unlock", "exit"}
        /\ sim[t].pc \in {"failed_unlock", "exit"} =>
              /\ Tasks[t].State = "error"
              /\ Tasks[t].Result = "deployment '" \o sim[t].deployment \o "' not found"
        /\ sim[t].pc = "exit" => LocksOf(t) = {}
        /\ \E r \in DOMAIN http : http[r].task = t /\ http[r].code = StatusFound

\* C6: a simulated operation whose mutation found the deployment gone ends in
\* error with the store's "deployment '<name>' not found" as result text, the
\* locks for the deployment are eventually removed, and its caller got 302 with
\* the task's location, not an error.
C6_VanishedDeploymentEndsInError ==
    \A t \in SimIDs :
        /\ [](t \in DOMAIN sim => C6_Failed(t))
        /\ (t \in DOMAIN sim /\ sim[t].err # Nil) ~>
              (/\ t \in DOMAIN sim
               /\ Tasks[t].State = "error"
               /\ sim[t].pc = "exit"
               /\ LocksOn(sim[t].deployment) = {})

\* A task whose mutation failed has returned, having added and removed its lock.
C6_Witness ==
    \E t \in DOMAIN sim :
        sim[t].err # Nil /\ sim[t].pc = "exit" /\ Tasks[t].State = "error"

\* ----------------------------------------------------------------------- C7
\* The simulated task t is a Delete.
IsDelete(t) == t \in DOMAIN sim /\ sim[t].kind = "delete"

\* The operations other than t that target t's deployment: accepted ones (their
\* goroutines) and ones a handler has checked but not yet accepted.
Others(t) ==
    {u \in DOMAIN sim \ {t} : sim[u].deployment = sim[t].deployment}
      \cup {r \in DOMAIN http : http[r].pc = "checked"
                                   /\ http[r].deployment = sim[t].deployment}

NoOther(t) == t \in DOMAIN sim => Others(t) = {}

\* What the end-to-end scenario asserts once the Delete task is done.
Settled(t) ==
    /\ Tasks[t].State = "done"
    /\ GetDeployment(sim[t].deployment).err = DeploymentNotFound(sim[t].deployment)
    /\ LocksOn(sim[t].deployment) = {}

\* C7: a Delete accepted for an existing deployment that no other operation
\* targets is never in error, eventually is done, and in every state in which it
\* is done GetDeployment of the name fails with not found and no lock for the
\* deployment is listed.
C7_SingleDeleteSettles ==
    \A t \in SimIDs :
        /\ []((IsDelete(t) /\ NoOther(t)) =>
                 /\ Tasks[t].State # "error"
                 /\ Tasks[t].State = "done" => Settled(t))
        /\ []NoOther(t) => (IsDelete(t) ~> (IsDelete(t) /\ Settled(t)))

\* A lone Delete is done, and a later request for the name has been refused.
C7_Witness ==
    \E t \in DOMAIN sim :
        /\ IsDelete(t) /\ NoOther(t) /\ Settled(t)
        /\ Len(http) = MaxOps

\* ----------------------------------------------------------------------- C8
\* C8: a name DeleteDeployment has succeeded on is reported absent by
\* HasDeployment and GetDeployment in every later state.
C8_DeletedStaysAbsent ==
    \A n \in deleted :
        /\ ~HasDeployment(n)
        /\ GetDeployment(n).err = DeploymentNotFound(n)

\* After a successful delete, other store operations have run against the name.
C8_Witness ==
    /\ deleted # {}
    /\ \E t \in DOMAIN sim :
          sim[t].deployment \in deleted /\ sim[t].kind # "delete" /\ sim[t].pc = "exit"

\* ----------------------------------------------------------------------- C9
\* The store as the DeleteDeployment call in progress found it.
Pre == [Deployments |-> call.pre[1], VMs |-> call.pre[2], Instances |-> call.pre[3],
        Variables |-> call.pre[4], Tasks |-> call.pre[5], Stemcells |-> call.pre[6],
        Locks |-> call.pre[7], nextTaskID |-> call.pre[8]]

\* m with key k dropped and every other key as in pre.
SameBut(m, pre, k) ==
    /\ DOMAIN m = DOMAIN pre \ {k}
    /\ \A x \in DOMAIN m : m[x] = pre[x]

\* C9: when DeleteDeployment(name) is about to return nil, the VM, Instance and
\* Variable lists under name are gone and name is in no stemcell's list, while
\* every other deployment's entities, all tasks, all locks and the other names
\* of each stemcell's list, in their original order, are as the call found them.
C9_DeleteDeploymentPostcondition ==
    (call.pc = "return" /\ call.err = Nil) =>
        /\ SameBut(Deployments, Pre.Deployments, call.name)
        /\ SameBut(VMs, Pre.VMs, call.name)
        /\ SameBut(Instances, Pre.Instances, call.name)
        /\ SameBut(Variables, Pre.Variables, call.name)
        /\ Tasks = Pre.Tasks
        /\ Locks = Pre.Locks
        /\ nextTaskID = Pre.nextTaskID
        /\ Len(Stemcells) = Len(Pre.Stemcells)
        /\ \A i \in 1..Len(Stemcells) :
              /\ Stemcells[i].CID = Pre.Stemcells[i].CID
              /\ Stemcells[i].Deployments =
                    SelectSeq(Pre.Stemcells[i].Deployments, LAMBDA d : d # call.name)

\* A successful delete of a name listed between two others is about to return,
\* after other calls have changed the store.
C9_Witness ==
    /\ call.pc = "return" /\ call.err = Nil /\ call.name = "redis"
    /\ Pre.Stemcells[1].Deployments = <<"cf", "redis", "mysql">>
    /\ Tasks # defaultTasks

\* ---------------------------------------------------------------------- C10
\* C10: whenever a reader can enter (no writer holds the mutex), a name absent
\* from the deployment map has no VM, Instance or Variable entry and is in no
\* stemcell's deployment list.
C10_DeleteNeverPartial ==
    MuFree =>
        \A n \in Names \ DOMAIN Deployments :
            /\ n \notin DOMAIN VMs
            /\ n \notin DOMAIN Instances
            /\ n \notin DOMAIN Variables
            /\ \A i \in 1..Len(Stemcells) : n \notin Range(Stemcells[i].Deployments)

\* A reader can enter after a delete went through every step of its section.
C10_Witness ==
    /\ MuFree
    /\ "redis" \in deleted
    /\ "redis" \notin DOMAIN Deployments

\* ---------------------------------------------------------------------- C11
\* The store's write operations.
WriteOps ==
    {"DeleteDeployment", "CreateTask", "UpdateTaskState", "AddLock", "RemoveLock",
     "RecreateVMs", "ChangeJobState"}

\* Caller c is inside the critical section of the method it called.
InCS(c) == threads[c].pc # "idle"

\* C11: whenever two callers are inside critical sections of the store at the
\* same time, both are in read operations; a write operation shares its
\* critical section with no other operation.
C11_WritersExclude ==
    \A c, d \in Callers :
        (c # d /\ InCS(c) /\ InCS(d)) =>
            (threads[c].op \notin WriteOps /\ threads[d].op \notin WriteOps)

\* Two read operations are inside together, after a write went through.
C11_Witness ==
    /\ \E c, d \in Callers :
          c # d /\ InCS(c) /\ InCS(d) /\ threads[c].op = "GetTasks" /\ threads[d].op = "GetVMs"
    /\ Locks # <<>>

\* ---------------------------------------------------------------------- C12
\* C12: under concurrent callers the ids CreateTask has returned are pairwise
\* distinct, the stored tasks are the fixtures' plus exactly one record per
\* returned id, and once no CreateTask is in progress the counter has advanced
\* by exactly the number of calls.
C12_ConcurrentCreateTask ==
    /\ \A i, j \in 1..Len(returned) : i # j => returned[i] # returned[j]
    /\ DOMAIN Tasks = DOMAIN defaultTasks \cup Range(returned)
    /\ Cardinality(DOMAIN Tasks) = Cardinality(DOMAIN defaultTasks) + Len(returned)
    /\ (\A c \in Callers : ~(InCS(c) /\ threads[c].op = "CreateTask")) =>
          nextTaskID = FirstTaskID + Len(returned)

\* Both callers have created tasks, and a read is inside.
C12_Witness ==
    /\ Len(returned) >= 2
    /\ \E c \in Callers : InCS(c) /\ threads[c].op = "GetTasks"

\* ---------------------------------------------------------------------- C13
\* The store's read operations whose results the client keeps.
ReadMethods == {"GetDeployment", "GetInstances", "GetTask"}

\* C13, as claimed: whatever a client does to a value a read operation returned
\* to it, nested lists included, the store stays as it is, so a later read
\* returns what it would have returned anyway.
C13_ReadsReturnIndependentCopies ==
    [][(held.op \in ReadMethods /\ calls' = calls) => UNCHANGED store]_vars

\* ---------------------------------------------------------------------- C14
\* The record the client sees through what CreateTask returned to it.
HeldTask == IF held.op = "CreateTask" THEN Tasks[held.val.ptr] ELSE <<>>

\* C14, as claimed: while a client holds the record CreateTask returned, its
\* own changes to that record leave the stored tasks alone, and a later call
\* such as UpdateTaskState on that id leaves the record it holds alone.
C14_CreateTaskReturnsCopy ==
    [][held.op = "CreateTask" =>
          /\ calls' = calls => Tasks' = Tasks
          /\ held'.at = held.at => HeldTask' = HeldTask]_vars

\* ---------------------------------------------------------------------- C15
\* The step is the client's call of op: held' is what that call returned.
IsCall(op) == calls' # calls /\ held'.at = calls' /\ held'.op = op

\* C15: CreateTask(description, deployment, user) stores under the returned
\* id a task that is queued, has an empty result and carries the three
\* arguments; GetTask of that id returns it at once; every other task and
\* every other collection is unchanged, and the counter has moved to that id.
C15_CreateTaskPostcondition ==
    [][IsCall("CreateTask") =>
         LET id == held'.val.ptr
             a  == held'.args
         IN  /\ id \notin DOMAIN Tasks
             /\ \A t \in DOMAIN Tasks' :
                   t = id => GetTask(t)' = [val |-> <<Tasks'[id]>>, err |-> Nil]
             /\ DOMAIN Tasks' = DOMAIN Tasks \cup {id}
             /\ Tasks'[id] = [ID |-> id, State |-> "queued", Description |-> a[1],
                              Result |-> "", User |-> a[3], Deployment |-> a[2]]
             /\ \A k \in DOMAIN Tasks : Tasks'[k] = Tasks[k]
             /\ nextTaskID' = id
             /\ UNCHANGED <<Deployments, VMs, Instances, Variables, Stemcells, Locks>>]_vars

\* A CreateTask call has just returned, after other mutators ran.
C15_Witness ==
    /\ held.op = "CreateTask" /\ held.at = calls /\ calls >= 2
    /\ held.args[2] = "" 
    /\ Tasks[held.val.ptr].State = "queued"
    /\ Tasks[5].State # "error"

\* ---------------------------------------------------------------------- C16
\* C16: UpdateTaskState(id, newState, resultText) on an existing task sets the
\* state to newState, replaces the result text when resultText is non-empty and
\* keeps it when resultText is empty; no other field of the task, no other
\* task and nothing else in the store changes, and the call returns nil.
C16_UpdateTaskStatePostcondition ==
    [][(IsCall("UpdateTaskState") /\ held'.args[1] \in DOMAIN Tasks) =>
         LET id  == held'.args[1]
             st  == held'.args[2]
             res == held'.args[3]
         IN  /\ held'.err = Nil
             /\ Tasks'[id].State = st
             /\ Tasks'[id].Result = IF res # "" THEN res ELSE Tasks[id].Result
             /\ Tasks'[id] = [Tasks[id] EXCEPT !.State = st, !.Result = Tasks'[id].Result]
             /\ DOMAIN Tasks' = DOMAIN Tasks
             /\ \A k \in DOMAIN Tasks \ {id} : Tasks'[k] = Tasks[k]
             /\ UNCHANGED <<Deployments, VMs, Instances, Variables, Stemcells, Locks,
                            nextTaskID>>]_vars

\* An update with an empty result text has just kept a non-empty stored one.
C16_Witness ==
    /\ held.op = "UpdateTaskState" /\ held.at = calls /\ held.err = Nil
    /\ held.args[3] = ""
    /\ Tasks[held.args[1]].State = held.args[2]
    /\ Tasks[held.args[1]].Result # ""

\* ---------------------------------------------------------------------- C17
\* The name or id a mutator call is about is not in the store.
TargetAbsent(op, args) ==
    IF op = "UpdateTaskState" THEN args[1] \notin DOMAIN Tasks
    ELSE args[1] \notin DOMAIN Deployments

\* C17: DeleteDeployment, ChangeJobState and RecreateVMs on an absent
\* deployment and UpdateTaskState on an unknown id return the not-found error
\* and leave every collection and the id counter as they were.
C17_NotFoundChangesNothing ==
    /\ []((call.pc = "return" /\ call.err # Nil) =>
             /\ call.err = DeploymentNotFound(call.name)
             /\ store = call.pre)
    /\ [][\A op \in {"ChangeJobState", "RecreateVMs", "UpdateTaskState"} :
             IsCall(op) =>
                /\ held'.err # Nil <=> TargetAbsent(op, held'.args)
                /\ held'.err # Nil =>
                      /\ held'.err = IF op = "UpdateTaskState"
                                     THEN TaskNotFound(held'.args[1])
                                     ELSE DeploymentNotFound(held'.args[1])
                      /\ UNCHANGED store]_vars

\* A DeleteDeployment of an absent name is about to return its error, after an
\* UpdateTaskState of an unknown id returned one.
C17_Witness ==
    /\ call.pc = "return" /\ call.err # Nil
    /\ held.op = "UpdateTaskState" /\ held.err # Nil

\* ---------------------------------------------------------------------- C18
\* The stored tasks a GetTasks(state, deployment, _) call must list.
Matching(state, deployment) ==
    {Tasks[id] : id \in {k \in DOMAIN Tasks :
        /\ (state # "" => Tasks[k].State = state)
        /\ (deployment # "" => Tasks[k].Deployment = deployment)}}

\* C18: GetTasks(state, deployment, limit) with limit <= 0 returns exactly the
\* stored tasks whose state equals a non-empty state filter and whose
\* deployment equals a non-empty deployment filter, each once.
C18_GetTasksFilters ==
    [][(IsCall("GetTasks") /\ held'.args[3] <= 0) =>
         /\ Range(held'.val) = Matching(held'.args[1], held'.args[2])
         /\ Len(held'.val) = Cardinality(Matching(held'.args[1], held'.args[2]))]_vars

\* An unlimited listing under both filters has returned some stored tasks and
\* left others out, after the task set changed.
C18_Witness ==
    /\ held.op = "GetTasks" /\ held.at = calls /\ calls >= 2
    /\ held.args[1] # "" /\ held.args[2] # "" /\ held.args[3] <= 0
    /\ held.val # <<>>
    /\ \E id \in DOMAIN Tasks : Tasks[id].State # held.args[1]
    /\ \E id \in DOMAIN Tasks : Tasks[id].Deployment # held.args[2]
    /\ \E id \in DOMAIN Tasks : id > FirstTaskID /\ Tasks[id] \in Range(held.val)

\* ---------------------------------------------------------------------- C19
Min(a, b) == IF a < b THEN a ELSE b

\* C19: the result of GetTasks is in strictly descending id order; with
\* limit N > 0 it holds the min(N, number of matches) matching tasks with the
\* highest ids; with limit <= 0 it holds all matching tasks.
C19_GetTasksOrderAndLimit ==
    [][IsCall("GetTasks") =>
         LET r     == held'.val
             limit == held'.args[3]
             m     == Matching(held'.args[1], held'.args[2])
         IN  /\ \A i \in 1..(Len(r) - 1) : r[i].ID > r[i + 1].ID
             /\ Range(r) \subseteq m
             /\ limit > 0 =>
                   /\ Len(r) = Min(limit, Cardinality(m))
                   /\ \A t \in m \ Range(r) : \A u \in Range(r) : u.ID > t.ID
             /\ limit <= 0 => Len(r) = Cardinality(m)]_vars

\* A listing with a limit has cut off older matches and kept a newly created
\* task.
C19_Witness ==
    /\ held.op = "GetTasks" /\ held.at = calls
    /\ held.args[3] > 0 /\ Len(held.val) = held.args[3]
    /\ Cardinality(Matching(held.args[1], held.args[2])) > held.args[3]
    /\ held.val[1].ID > FirstTaskID

\* ---------------------------------------------------------------------- C20
\* The per-deployment map a list method reads.
ListedMap(op) ==
    CASE op = "GetVMs" -> VMs
      [] op = "GetInstances" -> Instances
      [] op = "GetVariables" -> Variables

\* C20: GetVMs, GetInstances and GetVariables return the not-found error
\* exactly when the named deployment is not a key of the deployment map; for a
\* deployment that is a key but has no stored entries they return an empty
\* list and no error.
C20_ListNotFoundIffAbsent ==
    [][\A op \in {"GetVMs", "GetInstances", "GetVariables"} :
         IsCall(op) =>
            LET d == held'.args[1]
            IN  /\ held'.err # Nil <=> d \notin DOMAIN Deployments
                /\ held'.err # Nil => held'.err = DeploymentNotFound(d)
                /\ (d \in DOMAIN Deployments /\ MapGet(ListedMap(op), d) = <<>>) =>
                      held'.val = <<>> /\ held'.err = Nil]_vars

\* A list call for a deployment that exists but has no key in the listed map
\* has returned an empty list and no error.
C20_Witness ==
    /\ held.op \in {"GetVMs", "GetInstances", "GetVariables"} /\ held.at = calls
    /\ held.args[1] \in DOMAIN Deployments
    /\ held.args[1] \notin DOMAIN ListedMap(held.op)
    /\ held.val = <<>> /\ held.err = Nil

\* ---------------------------------------------------------------------- C21
\* The VMs and Instances a ChangeJobState(_, job, _) call is about.
Targeted(x, job) == job = "" \/ x.Job = job

\* C21: ChangeJobState(deployment, job, newState) on an existing deployment
\* sets, for every VM and Instance of the deployment whose job equals job (all
\* when job is empty): with stopped, VM state stopped and VM process state
\* stopped; with started or restart, VM state started and VM process state
\* running; the Instance state and the state of each of its Processes become
\* that process state.
C21_ChangeJobStateSets ==
    [][(IsCall("ChangeJobState") /\ held'.args[1] \in DOMAIN Deployments) =>
         LET d    == held'.args[1]
             job  == held'.args[2]
             new  == held'.args[3]
             life == CASE new = "stopped" -> "stopped"
                       [] new \in {"started", "restart"} -> "started"
             ps   == CASE new = "stopped" -> "stopped"
                       [] new \in {"started", "restart"} -> "running"
         IN  /\ held'.err = Nil
             /\ Len(VMs'[d]) = Len(VMs[d])
             /\ Len(Instances'[d]) = Len(Instances[d])
             /\ \A i \in DOMAIN VMs[d] :
                   Targeted(VMs[d][i], job) =>
                      /\ VMs'[d][i].State = life
                      /\ VMs'[d][i].ProcessState = ps
             /\ \A i \in DOMAIN Instances[d] :
                   Targeted(Instances[d][i], job) =>
                      /\ Instances'[d][i].State = ps
                      /\ Len(Instances'[d][i].Processes) = Len(Instances[d][i].Processes)
                      /\ \A j \in DOMAIN Instances'[d][i].Processes :
                            Instances'[d][i].Processes[j].State = ps]_vars

\* A stop of one job of cf has returned: its VMs, Instances and Processes are
\* stopped while another job's are started and running.
C21_Witness ==
    /\ held.op = "ChangeJobState" /\ held.at = calls /\ held.err = Nil
    /\ held.args = <<"cf", "router", "stopped">>
    /\ \E i \in DOMAIN VMs["cf"] :
          /\ VMs["cf"][i].Job = "router"
          /\ VMs["cf"][i].State = "stopped" /\ VMs["cf"][i].ProcessState = "stopped"
    /\ \E i \in DOMAIN VMs["cf"] :
          /\ VMs["cf"][i].Job # "router"
          /\ VMs["cf"][i].State = "started" /\ VMs["cf"][i].ProcessState = "running"
    /\ \E i \in DOMAIN Instances["cf"] :
          /\ Instances["cf"][i].Job = "router" /\ Instances["cf"][i].State = "stopped"
          /\ \A j \in DOMAIN Instances["cf"][i].Processes :
                Instances["cf"][i].Processes[j].State = "stopped"

\* ---------------------------------------------------------------------- C22
\* The last call was ChangeJobState(d, job, "stopped") and it succeeded.
JustStopped(d, job) ==
    /\ held.op = "ChangeJobState" /\ held.at = calls /\ held.err = Nil
    /\ held.args = <<d, job, "stopped">>

\* C22: ChangeJobState(d, job, stopped) directly followed by
\* ChangeJobState(d, job, started) leaves every targeted VM started with
\* process state running and every targeted Instance and Process running,
\* and every VM and Instance of another job, with its Processes, as it was
\* before the stop.
C22_StopThenStart ==
    [][\A d \in Names, job \in ApiJobArgs :
         (JustStopped(d, job) /\ IsCall("ChangeJobState")
            /\ held'.args = <<d, job, "started">>) =>
            LET before == held.pre
            IN  /\ DOMAIN VMs'[d] = DOMAIN before[2][d]
                /\ DOMAIN Instances'[d] = DOMAIN before[3][d]
                /\ \A i \in DOMAIN VMs'[d] :
                      IF Targeted(before[2][d][i], job)
                      THEN /\ VMs'[d][i].State = "started"
                           /\ VMs'[d][i].ProcessState = "running"
                      ELSE VMs'[d][i] = before[2][d][i]
                /\ \A i \in DOMAIN Instances'[d] :
                      IF Targeted(before[3][d][i], job)
                      THEN /\ Instances'[d][i].State = "running"
                           /\ \A j \in DOMAIN Instances'[d][i].Processes :
                                 Instances'[d][i].Processes[j].State = "running"
                      ELSE Instances'[d][i] = before[3][d][i]]_vars

\* A stop of the routers of cf and then their start have returned, and the
\* other jobs of cf, stopped earlier, are still stopped.
C22_Witness ==
    /\ held.op = "ChangeJobState" /\ held.at = calls /\ held.err = Nil
    /\ held.args = <<"cf", "router", "started">>
    /\ \E i \in DOMAIN held.pre[2]["cf"] :
          /\ held.pre[2]["cf"][i].Job = "router"
          /\ held.pre[2]["cf"][i].State = "stopped"
          /\ VMs["cf"][i].State = "started" /\ VMs["cf"][i].ProcessState = "running"
    /\ \E i \in DOMAIN VMs["cf"] :
          VMs["cf"][i].Job # "router" /\ VMs["cf"][i].State = "stopped"

C24_LocksAreAdvisory ==
    \A t \in DOMAIN sim :
        (sim[t].pc # "exit" /\ MuFree) => ENABLED Execute(t)

\* Two operations on the same deployment are both processing and the lock
\* list holds a record for each.
C24_Witness ==
    \E t, u \in DOMAIN sim :
        /\ t # u
        /\ sim[t].deployment = sim[u].deployment
        /\ Tasks[t].State = "processing" /\ Tasks[u].State = "processing"
        /\ LocksOf(t) # {} /\ LocksOf(u) # {}
        /\ Cardinality(LocksOn(sim[t].deployment)) = 2

\* ---------------------------------------------------------------------- C25
\* Task t's goroutine has added its lock and has not yet made its own
\* RemoveLock call.
HoldsLock(t) ==
    sim[t].pc \in {"working", "deleting", "starting", "failed", "failed_unlock", "unlock"}

\* C25: from the step in which a task adds its lock until that task's own
\* RemoveLock, the lock list holds a record carrying that task's id, whatever
\* other operations on the same deployment do in between.
C25_LockBracketsItsOperation ==
    \A t \in DOMAIN sim : HoldsLock(t) => LocksOf(t) # {}

\* ---------------------------------------------------------------------- C26
\* After the step, the targeted VMs and Instances of d carry these states.
JobsAre(d, job, life, ps) ==
    /\ \A i \in DOMAIN VMs'[d] :
          Targeted(VMs'[d][i], job) =>
             VMs'[d][i].State = life /\ VMs'[d][i].ProcessState = ps
    /\ \A i \in DOMAIN Instances'[d] :
          Targeted(Instances'[d][i], job) => Instances'[d][i].State = ps

\* What a step of the restart goroutine of task t may do.
RestartStep(t) ==
    LET a       == sim[t].pc
        b       == sim'[t].pc
        d       == sim[t].deployment
        present == d \in DOMAIN Deployments
    IN  a # b =>
          CASE a = "queued" -> b = "processing"
            [] a = "processing" -> b = "working"
            [] a = "working" ->
                 IF present THEN b = "starting" /\ JobsAre(d, sim[t].job, "stopped", "stopped")
                 ELSE b = "failed" /\ UNCHANGED <<VMs, Instances>>
            [] a = "starting" ->
                 IF present THEN b = "unlock" /\ JobsAre(d, sim[t].job, "started", "running")
                 ELSE b = "failed" /\ UNCHANGED <<VMs, Instances>>
            [] a = "failed" -> b = "failed_unlock" /\ Tasks'[t].State = "error"
            [] a = "failed_unlock" -> b = "exit"
            [] a = "unlock" -> b = "complete"
            [] a = "complete" -> b = "exit" /\ Tasks'[t].State = "done"
            [] OTHER -> FALSE

\* C26: a Restart makes the stop call and then the start call, as two store
\* calls; the start call is made only after the stop call succeeded; the
\* task becomes done only after both succeeded, and a failure of either ends
\* it in error.
C26_RestartStopsThenStarts ==
    /\ [][\A t \in DOMAIN sim : sim[t].kind = "restart" => RestartStep(t)]_vars
    /\ [](\A t \in DOMAIN sim :
            sim[t].kind = "restart" =>
               /\ Tasks[t].State = "done" => sim[t].pc = "exit" /\ sim[t].err = Nil
               /\ sim[t].pc = "exit" =>
                     Tasks[t].State = IF sim[t].err = Nil THEN "done" ELSE "error"
               /\ sim[t].pc \in {"starting", "unlock", "complete"} => sim[t].err = Nil)

\* A Restart has aborted: its goroutine returned with the task in error.
C26_Witness ==
    \E t \in DOMAIN sim :
        /\ sim[t].kind = "restart" /\ sim[t].pc = "exit"
        /\ sim[t].err # Nil /\ Tasks[t].State = "error"

\* ---------------------------------------------------------------------- C27
\* The requests that were answered 302 / 404.
Accepted == {r \in DOMAIN http : http[r].code = StatusFound}
Rejected == {r \in DOMAIN http : http[r].code = StatusNotFound}

\* C27: a Delete, Recreate or job-state request whose deployment is absent
\* when the handler checks is answered NotFound and has no effect: the check
\* changes nothing in the store and starts no simulation, the request is never
\* accepted later, and every task beyond the fixtures, every advance of the
\* id counter, every simulation and every lock belongs to an accepted request.
C27_RejectedRequestHasNoEffect ==
    /\ [][Len(http') = Len(http) + 1 =>
            LET x == http'[Len(http')]
            IN  /\ x.pc = "checked" => x.deployment \in DOMAIN Deployments
                /\ x.pc # "checked" => x = Response(StatusNotFound, 0)
                /\ UNCHANGED <<store, sim>>]_vars
    /\ [][\A r \in Rejected : http'[r] = http[r]]_vars
    /\ [](/\ nextTaskID = FirstTaskID + Cardinality(Accepted)
          /\ DOMAIN Tasks = DOMAIN defaultTasks \cup {http[r].task : r \in Accepted}
          /\ DOMAIN sim = {http[r].task : r \in Accepted}
          /\ \A i \in DOMAIN Locks : \E r \in Accepted : Locks[i].TaskID = Itoa(http[r].task))

\* One request was rejected, another was accepted and its operation has
\* returned: one task was created and no lock is left.
C27_Witness ==
    /\ Rejected # {} /\ Accepted # {}
    /\ nextTaskID = FirstTaskID + 1
    /\ \A t \in DOMAIN sim : sim[t].pc = "exit"
    /\ Locks = <<>>

\* ---------------------------------------------------------------------- C28
\* C28: every task id handed back with a 302 names a task that is in the
\* store then and in every later state, so GetTask of it never fails, also
\* after the task's deployment was deleted; no step removes a task.
C28_ReturnedTaskStaysReadable ==
    /\ [](\A r \in Accepted :
            /\ http[r].task \in DOMAIN Tasks
            /\ GetTask(http[r].task).err = Nil
            /\ GetTask(http[r].task).val[1].ID = http[r].task)
    /\ [][DOMAIN Tasks \subseteq DOMAIN Tasks']_vars

\* The task of an accepted Delete is done and still readable although its
\* deployment is gone.
C28_Witness ==
    \E r \in Accepted :
        LET t == http[r].task
        IN  /\ GetTask(t).err = Nil
            /\ Tasks[t].State = "done"
            /\ sim[t].kind = "delete"
            /\ Tasks[t].Deployment \notin DOMAIN Deployments

\* ---------------------------------------------------------------------- C29
\* What GetTaskOutput returns for kind result.
ResultOutput(t) ==
    IF t.Result # "" THEN t.Result ELSE "Task " \o Itoa(t.ID) \o ": " \o t.Description

\* C29: GetTaskOutput with an absent or unrecognized kind returns what kind
\* result returns for the task: its result text when non-empty, otherwise
\* "Task {id}: {description}".
C29_OutputDefaultsToResult ==
    [][(/\ IsCall("GetTaskOutput") /\ held'.err = Nil
        /\ held'.args[2] \notin {"result", "debug", "cpi", "event"}) =>
          held'.val = <<ResultOutput(Tasks[held'.args[1]])>>]_vars

\* ---------------------------------------------------------------------- C30
\* C30: a lock is added only once its task has entered processing: a lock
\* record carrying task id T exists only if task T exists and is not queued,
\* and the step that adds it finds the task in processing.
C30_LockOnlyAfterProcessing ==
    /\ [](\A t \in DOMAIN Tasks : LocksOf(t) # {} => Tasks[t].State # "queued")
    /\ [][Len(Locks') > Len(Locks) =>
            \E t \in DOMAIN sim :
               /\ Locks' = Append(Locks, Locks'[Len(Locks')])
               /\ Locks'[Len(Locks')].TaskID = Itoa(t)
               /\ Locks'[Len(Locks')].Resource = sim[t].deployment
               /\ Tasks[t].State = "processing"]_vars

\* A task holds a lock while another task on the same deployment is still
\* queued and has none.
C30_Witness ==
    \E t, u \in DOMAIN sim :
        /\ LocksOf(t) # {} /\ Tasks[t].State = "processing"
        /\ Tasks[u].State = "queued" /\ LocksOf(u) = {}
        /\ sim[t].deployment = sim[u].deployment

\* ---------------------------------------------------------------------- C31
\* Every simulated operation that was started has executed its last step.
AllReturned == \A t \in DOMAIN sim : sim[t].pc = "exit"

\* C31: no lock outlives its operation: whenever all simulated operations
\* have returned, the lock list is empty, whatever the interleaving and also
\* for several operations on one deployment.
C31_NoLockOutlivesItsOperation ==
    AllReturned => Locks = <<>>

\* Two operations on the same deployment have both returned, one of them
\* through the failure path, and no lock is left.
C31_Witness ==
    /\ AllReturned /\ Locks = <<>>
    /\ \E t, u \in DOMAIN sim :
          /\ t # u /\ sim[t].deployment = sim[u].deployment
          /\ Tasks[t].State = "done" /\ Tasks[u].State = "error"

\* ---------------------------------------------------------------------- C32
\* t and u are two Delete operations accepted for the same deployment.
TwoDeletes(t, u) ==
    /\ t \in DOMAIN sim /\ u \in DOMAIN sim /\ t # u
    /\ sim[t].kind = "delete" /\ sim[u].kind = "delete"
    /\ sim[t].deployment = sim[u].deployment

\* t ended done, u ended error with the not-found text.
WonAndLost(t, u) ==
    /\ Tasks[t].State = "done"
    /\ Tasks[u].State = "error"
    /\ Tasks[u].Result = "deployment '" \o sim[u].deployment \o "' not found"

\* C32: two Delete operations accepted for the same existing deployment both
\* return; exactly one of the two tasks is then done, the other is error with
\* the not-found result text, and the deployment is absent.
C32_TwoDeletesOneWins ==
    \A t, u \in SimIDs :
        /\ [](TwoDeletes(t, u) =>
                /\ ~(Tasks[t].State = "done" /\ Tasks[u].State = "done")
                /\ ~(Tasks[t].State = "error" /\ Tasks[u].State = "error")
                /\ (sim[t].pc = "exit" /\ sim[u].pc = "exit") =>
                      /\ WonAndLost(t, u) \/ WonAndLost(u, t)
                      /\ sim[t].deployment \notin DOMAIN Deployments)
        /\ TwoDeletes(t, u) ~> (TwoDeletes(t, u) /\ sim[t].pc = "exit" /\ sim[u].pc = "exit")

\* Two Deletes of redis have returned; the one accepted second won.
C32_Witness ==
    \E t, u \in DOMAIN sim :
        /\ TwoDeletes(t, u) /\ t < u
        /\ sim[t].pc = "exit" /\ sim[u].pc = "exit"
        /\ WonAndLost(u, t)
        /\ "redis" \notin DOMAIN Deployments

\* ---------------------------------------------------------------------- C33
\* t is a Delete and u a Recreate, Start, Stop or Restart accepted for the
\* same deployment.
DeleteAndOther(t, u) ==
    /\ t \in DOMAIN sim /\ u \in DOMAIN sim
    /\ sim[t].kind = "delete" /\ sim[u].kind # "delete"
    /\ sim[t].deployment = sim[u].deployment

\* The step is a return of a mutation call of u's goroutine.
MutationReturns(u) ==
    /\ sim[u].pc \in {"working", "starting"}
    /\ sim'[u].pc # sim[u].pc

\* C33: when a Delete and a Recreate, Start, Stop or Restart run on the same
\* deployment, both return, the Delete task ends done, each mutation call of
\* the other operation succeeds exactly if the deletion has not happened yet,
\* and the other task ends done if no call of it failed and error otherwise.
C33_DeleteAgainstOther ==
    /\ [][\A t, u \in SimIDs :
            (DeleteAndOther(t, u) /\ MutationReturns(u)) =>
               /\ sim'[u].err = Nil <=> sim[u].deployment \notin deleted
               /\ sim'[u].err # Nil => sim'[u].pc = "failed"]_vars
    /\ \A t, u \in SimIDs :
          /\ [](DeleteAndOther(t, u) =>
                  /\ Tasks[t].State # "error"
                  /\ sim[t].pc = "exit" => Tasks[t].State = "done"
                  /\ sim[u].pc = "exit" =>
                        Tasks[u].State = IF sim[u].err = Nil THEN "done" ELSE "error"
                  /\ Tasks[u].State = "done" => sim[u].pc = "exit" /\ sim[u].err = Nil)
          /\ DeleteAndOther(t, u) ~>
                (DeleteAndOther(t, u) /\ sim[t].pc = "exit" /\ sim[u].pc = "exit")

\* A Delete ended done and the other operation on its deployment ended error.
C33_Witness ==
    \E t, u \in DOMAIN sim :
        /\ DeleteAndOther(t, u)
        /\ sim[t].pc = "exit" /\ sim[u].pc = "exit"
        /\ Tasks[t].State = "done"
        /\ Tasks[u].State = "error" /\ sim[u].err # Nil

\* ---------------------------------------------------------------------- C34
\* C34: a simulated task is done only after its mutation succeeded: a Delete
\* task that is done has its deployment absent from the store and no call of
\* a done task returned an error; a task that is error had a mutation call
\* return the not-found error.
C34_DoneOnlyAfterSuccess ==
    \A t \in DOMAIN sim :
        /\ Tasks[t].State = "done" =>
              /\ sim[t].err = Nil
              /\ sim[t].kind = "delete" =>
                    /\ sim[t].deployment \notin DOMAIN Deployments
                    /\ sim[t].deployment \in deleted
        /\ Tasks[t].State = "error" =>
              sim[t].err = "deployment '" \o sim[t].deployment \o "' not found"

\* A Delete task is done with its deployment gone while another Delete task on
\* it is error.
C34_Witness ==
    \E t, u \in DOMAIN sim :
        /\ sim[t].kind = "delete" /\ Tasks[t].State = "done"
        /\ sim[t].deployment \notin DOMAIN Deployments
        /\ sim[u].kind = "delete" /\ Tasks[u].State = "error" /\ sim[u].err # Nil

\* ---------------------------------------------------------------------- C35
\* The process states the VMs and Instances of one job of d carry.
JobProcessStates(d, job) ==
    {VMs[d][i].ProcessState : i \in {k \in DOMAIN MapGet(VMs, d) : VMs[d][k].Job = job}}
      \cup {Instances[d][i].State :
              i \in {k \in DOMAIN MapGet(Instances, d) : Instances[d][k].Job = job}}

\* The job names of d.
JobsOf(d) ==
    {VMs[d][i].Job : i \in DOMAIN MapGet(VMs, d)}
      \cup {Instances[d][i].Job : i \in DOMAIN MapGet(Instances, d)}

\* C35: from the default fixtures, whatever store and simulator operations
\* ran, every VM is (started, running) or (stopped, stopped), every Process
\* has the state of its Instance, and within a deployment the VMs and
\* Instances of one job carry one process state.
C35_StatesStayConsistent ==
    /\ \A d \in DOMAIN VMs : \A i \in DOMAIN VMs[d] :
          <<VMs[d][i].State, VMs[d][i].ProcessState>> \in
              {<<"started", "running">>, <<"stopped", "stopped">>}
    /\ \A d \in DOMAIN Instances : \A i \in DOMAIN Instances[d] :
          \A j \in DOMAIN Instances[d][i].Processes :
              Instances[d][i].Processes[j].State = Instances[d][i].State
    /\ \A d \in DOMAIN VMs \cup DOMAIN Instances :
          \A job \in JobsOf(d) : Cardinality(JobProcessStates(d, job)) = 1

\* A direct call stopped the routers of cf and a simulated Stop that has
\* returned stopped redis, while the other jobs of cf run.
C35_Witness ==
    /\ "cf" \in DOMAIN VMs /\ "cf" \in DOMAIN Instances
    /\ \E i \in DOMAIN VMs["cf"] :
          VMs["cf"][i].Job = "router" /\ VMs["cf"][i].State = "stopped"
    /\ \E i \in DOMAIN Instances["cf"] :
          /\ Instances["cf"][i].Job = "router" /\ Instances["cf"][i].State = "stopped"
          /\ Instances["cf"][i].Processes[1].State = "stopped"
    /\ \E i \in DOMAIN VMs["cf"] :
          VMs["cf"][i].Job = "api" /\ VMs["cf"][i].ProcessState = "running"
    /\ "redis" \in DOMAIN VMs /\ VMs["redis"][1].State = "stopped"
    /\ \E t \in DOMAIN sim : sim[t].kind = "stop" /\ sim[t].pc = "exit"

\* ---------------------------------------------------------------------- C36
\* C36: from the default fixtures, whatever operations ran, every Instance's
\* VM identifier equals the identifier of the VM of the same deployment, job
\* and index.
C36_InstanceAndVMAgree ==
    \A d \in DOMAIN Instances \cap DOMAIN VMs :
        \A i \in DOMAIN Instances[d], k \in DOMAIN VMs[d] :
            (VMs[d][k].Job = Instances[d][i].Job /\ VMs[d][k].Index = Instances[d][i].Index)
                => Instances[d][i].VMCID = VMs[d][k].VMCID

\* ---------------------------------------------------------------------- C37
\* C37: every task a handler creates targets a deployment that is in the
\* store at the step that creates the task record, whatever Delete operations
\* run concurrently.
C37_TaskTargetExistsAtCreation ==
    [][\A t \in DOMAIN Tasks' \ DOMAIN Tasks :
          Tasks'[t].Deployment \in DOMAIN Deployments]_vars

====
